---- MODULE Spec2Model ----
(***************************************************************************)
(* Model of the query-understanding and operation-dispatch pipeline:       *)
(* BotOrchestrator.process_query, the entity handlers (timesheet, invoice, *)
(* expense, project) and the document store they read and write.           *)
(*                                                                         *)
(* Python floats are modelled as IEEE-754 binary64 values (53-bit          *)
(* significand, round-to-nearest-even); dates as calendar triples with     *)
(* datetime.strptime's validation and timedelta's day arithmetic.          *)
(***************************************************************************)
EXTENDS Integers, Sequences, FiniteSets, TLC

\* ------------------------------------------------------------------------
\* Python values.  Every scalar is a record, so that values of different
\* kinds can be compared: None, strings, floats [m, e], dates [y, m, d] and
\* generated identifiers [prefix, ym, n].

\* None, and equally a key that a dict does not hold (dict.get gives None)
None == [none |-> TRUE]

\* a str value
Str(s) == [s |-> s]

\* the empty string
Empty == Str("")

\* a "%Y-%m-%d" string
Date(y, m, d) == [y |-> y, m |-> m, d |-> d]

\* d.get(k)
Get(d, k) == IF k \in DOMAIN d THEN d[k] ELSE None

\* d.get(k, default)
GetOr(d, k, default) == IF k \in DOMAIN d THEN d[k] ELSE default

\* bool(v): None, "" and 0.0 are falsy
Truthy(v) == v # None /\ v # Empty /\ v # [m |-> <<>>, e |-> 0]

\* a or b
Or(a, b) == IF Truthy(a) THEN a ELSE b

\* isinstance(v, (int, float)): the values that support float arithmetic
IsNumber(v) == DOMAIN v = {"m", "e"}

\* ------------------------------------------------------------------------
\* IEEE-754 binary64 arithmetic on non-negative finite values, as Python's
\* float performs it.  A float is [m |-> significand, e |-> exponent] with
\* value m * 2^e; m is a natural number of exactly Precision bits, written
\* as a sequence of limbs in base LimbBase, least significant limb first.
\* Zero is [m |-> <<>>, e |-> 0].

\* width of the binary64 significand
Precision == 53

\* width and base of one limb of a multi-precision natural number
LimbBits == 15
LimbBase == 32768

\* 2^k for 0 <= k < LimbBits
Pow2(k) == CASE k = 0 -> 1 [] k = 1 -> 2 [] k = 2 -> 4 [] k = 3 -> 8
             [] k = 4 -> 16 [] k = 5 -> 32 [] k = 6 -> 64 [] k = 7 -> 128
             [] k = 8 -> 256 [] k = 9 -> 512 [] k = 10 -> 1024
             [] k = 11 -> 2048 [] k = 12 -> 4096 [] k = 13 -> 8192
             [] k = 14 -> 16384

RECURSIVE NStrip(_)
\* drop the high-order zero limbs
NStrip(a) ==
  IF Len(a) = 0 THEN <<>>
  ELSE IF a[Len(a)] = 0 THEN NStrip(SubSeq(a, 1, Len(a) - 1)) ELSE a

RECURSIVE NAddC(_, _, _)
\* a + b + carry
NAddC(a, b, c) ==
  IF Len(a) = 0 /\ Len(b) = 0 THEN (IF c = 0 THEN <<>> ELSE <<c>>)
  ELSE LET u == IF Len(a) = 0 THEN 0 ELSE a[1]
           v == IF Len(b) = 0 THEN 0 ELSE b[1]
           s == u + v + c
       IN <<s % LimbBase>> \o NAddC(IF Len(a) = 0 THEN <<>> ELSE Tail(a),
                                    IF Len(b) = 0 THEN <<>> ELSE Tail(b),
                                    s \div LimbBase)

NAdd(a, b) == NAddC(a, b, 0)

RECURSIVE NMulSmallC(_, _, _)
\* a * d + carry for 0 <= d < LimbBase
NMulSmallC(a, d, c) ==
  IF Len(a) = 0 THEN (IF c = 0 THEN <<>> ELSE <<c>>)
  ELSE LET p == a[1] * d + c
       IN <<p % LimbBase>> \o NMulSmallC(Tail(a), d, p \div LimbBase)

NMulSmall(a, d) == NStrip(NMulSmallC(a, d, 0))

RECURSIVE NMul(_, _)
\* exact product
NMul(a, b) ==
  IF Len(a) = 0 \/ Len(b) = 0 THEN <<>>
  ELSE LET rest == NMul(a, Tail(b))
       IN NAdd(NMulSmall(a, b[1]), IF Len(rest) = 0 THEN <<>> ELSE <<0>> \o rest)

RECURSIVE NDivSmall(_, _)
\* quotient and remainder by a small integer 0 < d < LimbBase
NDivSmall(a, d) ==
  IF Len(a) = 0 THEN [q |-> <<>>, r |-> 0]
  ELSE LET hi == NDivSmall(Tail(a), d)
           t  == hi.r * LimbBase + a[1]
       IN [q |-> NStrip(<<t \div d>> \o hi.q), r |-> t % d]

\* a * 2^k
NShl(a, k) ==
  LET w == k \div LimbBits
      s == NMulSmall(a, Pow2(k % LimbBits))
  IN IF Len(a) = 0 \/ w = 0 THEN s ELSE [i \in 1..w |-> 0] \o s

\* a \div 2^k, and whether a non-zero remainder was dropped
NShr(a, k) ==
  LET w    == k \div LimbBits
      rest == IF w >= Len(a) THEN <<>> ELSE SubSeq(a, w + 1, Len(a))
      qr   == NDivSmall(rest, Pow2(k % LimbBits))
  IN [q |-> qr.q,
      sticky |-> qr.r # 0 \/ \E i \in 1..w : i <= Len(a) /\ a[i] # 0]

\* number of significant bits
BitLen(a) ==
  IF Len(a) = 0 THEN 0
  ELSE LimbBits * (Len(a) - 1)
       + (CHOOSE k \in 1..LimbBits :
             Pow2(k - 1) <= a[Len(a)] /\ (k = LimbBits \/ a[Len(a)] < Pow2(k)))

\* number of low-order zero bits of a non-zero number
TrailingZeros(a) ==
  LET w == CHOOSE i \in 1..Len(a) : a[i] # 0 /\ \A j \in 1..(i - 1) : a[j] = 0
  IN LimbBits * (w - 1)
     + (CHOOSE k \in 0..(LimbBits - 1) :
           a[w] % Pow2(k) = 0 /\ (a[w] \div Pow2(k)) % 2 = 1)

IsOdd(a) == Len(a) > 0 /\ a[1] % 2 = 1

RECURSIVE NatToN(_)
NatToN(n) == IF n = 0 THEN <<>> ELSE <<n % LimbBase>> \o NatToN(n \div LimbBase)

RECURSIVE NToNat(_)
NToNat(a) == IF Len(a) = 0 THEN 0 ELSE a[1] + LimbBase * NToNat(Tail(a))

FZero == [m |-> <<>>, e |-> 0]

\* the rounded significand r of a number cut by k bits, renormalised when the
\* rounding carried into a further bit
RoundCarry(r, k, e) ==
  IF BitLen(r) > Precision
    THEN [m |-> NDivSmall(r, 2).q, e |-> e + k + 1]
    ELSE [m |-> r, e |-> e + k]

\* round to nearest, ties to even: s holds the kept bits and the guard bit
\* (s.q) and whether a lower bit was set (s.sticky)
RoundNearestEven(s, kept, k, e) ==
  RoundCarry(IF IsOdd(s.q) /\ (s.sticky \/ IsOdd(kept)) THEN NAdd(kept, <<1>>) ELSE kept,
             k, e)

\* the number m of L bits cut to Precision bits
RoundCut(s, k, e) == RoundNearestEven(s, NDivSmall(s.q, 2).q, k, e)

\* m * 2^e for a stripped m of L significant bits
RoundBits(m, L, e) ==
  IF L = 0 THEN FZero
  ELSE IF L <= Precision
    THEN [m |-> NShl(m, Precision - L), e |-> e - (Precision - L)]
  ELSE RoundCut(NShr(m, L - Precision - 1), L - Precision, e)

RoundStripped(m, e) == RoundBits(m, BitLen(m), e)

\* m * 2^e rounded to Precision significant bits, ties to even
Round(m0, e) == RoundStripped(NStrip(m0), e)

\* float(n) for a natural number n
FromNat(n) == Round(NatToN(n), 0)

\* x + y
FAdd(x, y) ==
  IF Len(x.m) = 0 THEN y
  ELSE IF Len(y.m) = 0 THEN x
  ELSE LET hi == IF x.e >= y.e THEN x ELSE y
           lo == IF x.e >= y.e THEN y ELSE x
           d  == hi.e - lo.e
       IN IF d > Precision + 2 THEN hi
          ELSE Round(NAdd(NShl(hi.m, d), lo.m), lo.e)

\* x * y
FMul(x, y) ==
  IF Len(x.m) = 0 \/ Len(y.m) = 0 THEN FZero
  ELSE Round(NMul(x.m, y.m), x.e + y.e)

\* x / y for a divisor y whose odd part is below LimbBase (8.0, 40.0, 160.0,
\* 10.0, 100.0): the dividend is extended so that the quotient has more than
\* Precision + 2 bits, and a non-zero remainder becomes the sticky bit.
FDiv(x, y) ==
  IF Len(x.m) = 0 THEN FZero
  ELSE LET tz  == TrailingZeros(y.m)
           d   == NToNat(NShr(y.m, tz).q)
           ext == Precision + 3 + LimbBits
           qr  == NDivSmall(NShl(x.m, ext), d)
           q2  == NAdd(NShl(qr.q, 1), IF qr.r = 0 THEN <<>> ELSE <<1>>)
       IN Round(q2, x.e - (y.e + tz) - ext - 1)

RECURSIVE Pow10(_)
Pow10(k) == IF k = 0 THEN 1 ELSE 10 * Pow10(k - 1)

\* float("<digits, the last `places` of them after the decimal point>"):
\* the binary64 value nearest to digits / 10^places
ParseFloat(digits, places) == FDiv(FromNat(digits), FromNat(Pow10(places)))

\* ------------------------------------------------------------------------
\* Calendar: datetime.strptime(s, "%Y-%m-%d"), datetime + timedelta(days=n),
\* datetime.strftime("%Y-%m-%d").  A date string is [y, m, d]; a datetime is
\* its proleptic Gregorian ordinal, as datetime.toordinal() counts it.

IsLeap(y) == y % 4 = 0 /\ (y % 100 # 0 \/ y % 400 = 0)

DaysInMonth(y, m) ==
  IF m = 2 THEN (IF IsLeap(y) THEN 29 ELSE 28)
  ELSE IF m \in {4, 6, 9, 11} THEN 30 ELSE 31

DaysBeforeYear(y) ==
  (y - 1) * 365 + (y - 1) \div 4 - (y - 1) \div 100 + (y - 1) \div 400

RECURSIVE DaysBeforeMonth(_, _)
DaysBeforeMonth(y, m) ==
  IF m = 1 THEN 0 ELSE DaysBeforeMonth(y, m - 1) + DaysInMonth(y, m - 1)

\* does the string name a day of the calendar (strptime raises otherwise)
ValidDate(s) ==
  /\ DOMAIN s = {"y", "m", "d"}
  /\ s.m \in 1..12
  /\ s.d \in 1..DaysInMonth(s.y, s.m)

\* years the model's dates fall in
CalendarYears == 2023..2027

\* datetime.strptime(s, "%Y-%m-%d") of a valid date string
strptime(s) == DaysBeforeYear(s.y) + DaysBeforeMonth(s.y, s.m) + s.d

\* datetime.strftime("%Y-%m-%d")
strftime(n) ==
  LET y == CHOOSE yy \in CalendarYears :
               DaysBeforeYear(yy) < n /\ n <= DaysBeforeYear(yy + 1)
      r == n - DaysBeforeYear(y)
      m == CHOOSE mm \in 1..12 :
               DaysBeforeMonth(y, mm) < r
               /\ r <= DaysBeforeMonth(y, mm) + DaysInMonth(y, mm)
  IN [y |-> y, m |-> m, d |-> r - DaysBeforeMonth(y, m)]

\* now.strftime('%Y%m')
YearMonth(s) == s.y * 100 + s.m

\* ------------------------------------------------------------------------
\* The document store: a collection is the sequence of its documents in
\* insertion order; a document is a record (a dict).

\* does the document satisfy an equality filter (a dict of field values)
Matches(doc, filter) == \A k \in DOMAIN filter : Get(doc, k) = filter[k]

\* position of the first matching document, 0 when there is none
FirstMatch(coll, filter) ==
  IF \E i \in 1..Len(coll) : Matches(coll[i], filter)
    THEN CHOOSE i \in 1..Len(coll) :
           /\ Matches(coll[i], filter)
           /\ \A j \in 1..(i - 1) : ~Matches(coll[j], filter)
    ELSE 0

\* Collection.find_one(filter)
find_one(coll, filter) ==
  IF FirstMatch(coll, filter) = 0 THEN None ELSE coll[FirstMatch(coll, filter)]

\* fault injection: insert_one on a collection with a unique index on the
\* natural key, leaving the collection as it is when the key is stored
insert_one_unique(coll, doc) ==
  IF \E i \in 1..Len(coll), k \in {"timesheet_id", "invoice_number"} :
       /\ k \in DOMAIN doc
       /\ k \in DOMAIN coll[i]
       /\ ("invoice_number" \in DOMAIN doc => k = "invoice_number")
       /\ coll[i][k] = doc[k]
    THEN coll
    ELSE Append(coll, doc)

\* Collection.insert_one(doc)
insert_one(coll, doc) == Append(coll, doc)

\* fault injection: update_one counting a matched document as modified only
\* when a field other than updated_at changes
update_one_changes_only(coll, filter, fields) ==
  LET i == FirstMatch(coll, filter)
  IN IF i = 0 THEN [coll |-> coll, modified_count |-> 0]
     ELSE [coll |-> [coll EXCEPT ![i] = fields @@ coll[i]],
           modified_count |-> IF fields @@ coll[i] = coll[i] THEN 0 ELSE 1]

\* Collection.update_one(filter, {"$set": fields}): the collection afterwards
\* and modified_count.  Every update sets updated_at to a fresh clock reading,
\* so a matched document is always a modified one.
update_one(coll, filter, fields) ==
  LET i == FirstMatch(coll, filter)
  IN IF i = 0 THEN [coll |-> coll, modified_count |-> 0]
     ELSE [coll |-> [coll EXCEPT ![i] = fields @@ coll[i]],
           modified_count |-> 1]

\* an exception raised with the given message
Raise(text, arg) == [text |-> text, arg |-> arg]

\* outcome of a handler call: the value returned or the exception raised, the
\* collections as the call leaves them, and the store operations it performed
Outcome(ok, val, ts, inv, ops) ==
  [ok |-> ok, val |-> val, timesheets |-> ts, invoices |-> inv, ops |-> ops]

\* ------------------------------------------------------------------------
\* TimesheetHandler

RECURSIVE GenerateEntries(_, _, _, _, _)
\* the loop "while current_date <= end" of create_timesheet and
\* update_timesheet_dates: the entries and the running total
GenerateEntries(current_date, end, hours_per_day, entries, total_hours) ==
  IF current_date <= end
    THEN GenerateEntries(current_date + 1, end, hours_per_day,
                         Append(entries, [date |-> strftime(current_date),
                                          hours |-> hours_per_day,
                                          description |-> None]),
                         FAdd(total_hours, hours_per_day))
    ELSE [entries |-> entries, total_hours |-> total_hours]

\* f"TS-{now.strftime('%Y%m')}-{now.microsecond % 1000}"
TimesheetId(now) == [prefix |-> "TS", ym |-> YearMonth(now.date), n |-> now.us % 1000]

\* TimesheetHandler.get_timesheet
get_timesheet(ts, timesheet_id) == find_one(ts, [timesheet_id |-> timesheet_id])

\* TimesheetHandler.create_timesheet
create_timesheet(ts, inv, now, project_id, talent_id, start_date, end_date, hours_per_day) ==
  IF ~ValidDate(start_date) \/ ~ValidDate(end_date)
    THEN Outcome(FALSE, Raise("time data does not match format '%Y-%m-%d'", None),
                 ts, inv, <<>>)
  ELSE IF strptime(start_date) <= strptime(end_date) /\ ~IsNumber(hours_per_day)
    THEN Outcome(FALSE, Raise("unsupported operand type(s) for +=", None),
                 ts, inv, <<>>)
  ELSE LET g == GenerateEntries(strptime(start_date), strptime(end_date),
                                hours_per_day, <<>>, FZero)
           timesheet == [timesheet_id |-> TimesheetId(now),
                         project_id   |-> project_id,
                         user_id      |-> talent_id,
                         start_date   |-> start_date,
                         end_date     |-> end_date,
                         status       |-> Str("draft"),
                         entries      |-> g.entries,
                         total_hours  |-> g.total_hours]
       IN Outcome(TRUE, timesheet, insert_one(ts, timesheet), inv,
                  <<"timesheets.insert_one">>)

\* fault injection: update_timesheet_dates writing the new dates and entries
\* but leaving the stored total_hours as it was
update_timesheet_dates_stale_total(ts, inv, timesheet_id, start_date, end_date, hours_per_day) ==
  IF get_timesheet(ts, timesheet_id) = None
    THEN Outcome(FALSE, Raise("Timesheet not found", timesheet_id), ts, inv,
                 <<"timesheets.find_one">>)
  ELSE IF ~ValidDate(start_date) \/ ~ValidDate(end_date)
    THEN Outcome(FALSE, Raise("time data does not match format '%Y-%m-%d'", None),
                 ts, inv, <<"timesheets.find_one">>)
  ELSE IF strptime(start_date) <= strptime(end_date) /\ ~IsNumber(hours_per_day)
    THEN Outcome(FALSE, Raise("unsupported operand type(s) for +=", None),
                 ts, inv, <<"timesheets.find_one">>)
  ELSE LET g == GenerateEntries(strptime(start_date), strptime(end_date),
                                hours_per_day, <<>>, FZero)
           result == update_one(ts, [timesheet_id |-> timesheet_id],
                                [start_date |-> start_date, end_date |-> end_date,
                                 entries |-> g.entries])
       IN Outcome(TRUE, get_timesheet(result.coll, timesheet_id), result.coll, inv,
                  <<"timesheets.find_one", "timesheets.update_one",
                    "timesheets.find_one">>)

\* fault injection: update_timesheet_dates appending the new entries to the
\* stored ones
update_timesheet_dates_merging(ts, inv, timesheet_id, start_date, end_date, hours_per_day) ==
  IF get_timesheet(ts, timesheet_id) = None
    THEN Outcome(FALSE, Raise("Timesheet not found", timesheet_id), ts, inv,
                 <<"timesheets.find_one">>)
  ELSE IF ~ValidDate(start_date) \/ ~ValidDate(end_date)
    THEN Outcome(FALSE, Raise("time data does not match format '%Y-%m-%d'", None),
                 ts, inv, <<"timesheets.find_one">>)
  ELSE IF strptime(start_date) <= strptime(end_date) /\ ~IsNumber(hours_per_day)
    THEN Outcome(FALSE, Raise("unsupported operand type(s) for +=", None),
                 ts, inv, <<"timesheets.find_one">>)
  ELSE LET g == GenerateEntries(strptime(start_date), strptime(end_date),
                                hours_per_day, <<>>, FZero)
           result == update_one(ts, [timesheet_id |-> timesheet_id],
                                [start_date |-> start_date, end_date |-> end_date,
                                 entries |-> get_timesheet(ts, timesheet_id).entries
                                             \o g.entries,
                                 total_hours |-> g.total_hours])
       IN Outcome(TRUE, get_timesheet(result.coll, timesheet_id), result.coll, inv,
                  <<"timesheets.find_one", "timesheets.update_one",
                    "timesheets.find_one">>)

\* TimesheetHandler.update_timesheet_dates
update_timesheet_dates(ts, inv, timesheet_id, start_date, end_date, hours_per_day) ==
  IF get_timesheet(ts, timesheet_id) = None
    THEN Outcome(FALSE, Raise("Timesheet not found", timesheet_id), ts, inv,
                 <<"timesheets.find_one">>)
  ELSE IF ~ValidDate(start_date) \/ ~ValidDate(end_date)
    THEN Outcome(FALSE, Raise("time data does not match format '%Y-%m-%d'", None),
                 ts, inv, <<"timesheets.find_one">>)
  ELSE IF strptime(start_date) <= strptime(end_date) /\ ~IsNumber(hours_per_day)
    THEN Outcome(FALSE, Raise("unsupported operand type(s) for +=", None),
                 ts, inv, <<"timesheets.find_one">>)
  ELSE LET g == GenerateEntries(strptime(start_date), strptime(end_date),
                                hours_per_day, <<>>, FZero)
           update_data == [start_date  |-> start_date,
                           end_date    |-> end_date,
                           entries     |-> g.entries,
                           total_hours |-> g.total_hours]
           result == update_one(ts, [timesheet_id |-> timesheet_id], update_data)
       IN IF result.modified_count = 0
            THEN Outcome(FALSE, Raise("Failed to update timesheet", timesheet_id),
                         result.coll, inv,
                         <<"timesheets.find_one", "timesheets.update_one">>)
            ELSE Outcome(TRUE, get_timesheet(result.coll, timesheet_id),
                         result.coll, inv,
                         <<"timesheets.find_one", "timesheets.update_one",
                           "timesheets.find_one">>)

\* valid_statuses of update_timesheet_status
TimesheetStatuses == {Str("draft"), Str("submitted"), Str("approved"), Str("rejected")}

\* TimesheetHandler.update_timesheet_status
update_timesheet_status(ts, inv, timesheet_id, status) ==
  IF status \notin TimesheetStatuses
    THEN Outcome(FALSE, Raise("Invalid status", status), ts, inv, <<>>)
  ELSE LET result == update_one(ts, [timesheet_id |-> timesheet_id],
                                [status |-> status])
       IN IF result.modified_count = 0
            THEN Outcome(FALSE, Raise("Timesheet not found", timesheet_id),
                         result.coll, inv, <<"timesheets.update_one">>)
            ELSE Outcome(TRUE, get_timesheet(result.coll, timesheet_id),
                         result.coll, inv,
                         <<"timesheets.update_one", "timesheets.find_one">>)

\* lexicographic order of two "%Y-%m-%d" strings, as the store's $gte / $lte
\* compare them
DateStrLE(a, b) ==
  \/ a.y < b.y
  \/ a.y = b.y /\ a.m < b.m
  \/ a.y = b.y /\ a.m = b.m /\ a.d <= b.d

\* TimesheetHandler.list_timesheets
list_timesheets(ts, project_id, talent_id, status, start_date, end_date) ==
  LET Test(doc) ==
        /\ Truthy(project_id) => doc.project_id = project_id
        /\ Truthy(talent_id) => doc.user_id = talent_id
        /\ Truthy(status) => doc.status = status
        /\ Truthy(start_date) => DateStrLE(start_date, doc.start_date)
        /\ Truthy(end_date) =>
             IF Truthy(start_date) THEN DateStrLE(doc.start_date, end_date)
                                   ELSE DateStrLE(doc.end_date, end_date)
  IN SelectSeq(ts, Test)

\* ------------------------------------------------------------------------
\* ExpenseHandler and ProjectHandler

\* ExpenseHandler.get_expense
get_expense(exps, expense_id) == find_one(exps, [expense_id |-> expense_id])

\* ExpenseHandler.list_expenses
list_expenses(exps, project_id, talent_id, status) ==
  LET Test(doc) ==
        /\ Truthy(project_id) => Get(doc, "project_id") = project_id
        /\ Truthy(talent_id) => Get(doc, "user_id") = talent_id
        /\ Truthy(status) => Get(doc, "status") = status
  IN SelectSeq(exps, Test)

\* ProjectHandler.get_project
get_project(projs, project_id) == find_one(projs, [project_id |-> project_id])

\* fault injection: get_talent filtering on a talent_id field
get_talent_by_talent_id(tals, talent_id) == find_one(tals, [talent_id |-> talent_id])

\* ProjectHandler.get_talent
get_talent(tals, talent_id) == find_one(tals, [user_id |-> talent_id])

\* ------------------------------------------------------------------------
\* InvoiceHandler

\* f"INV-{now.strftime('%Y%m')}-{now.microsecond % 1000}"
InvoiceNumber(now) == [prefix |-> "INV", ym |-> YearMonth(now.date), n |-> now.us % 1000]

\* fault injection: the rate-type chain with a seven-day week
InvoiceAmount_week_of_seven(rate_type, total_hours, rate_value) ==
  IF rate_type = Str("Hourly") THEN FMul(total_hours, rate_value)
  ELSE IF rate_type = Str("Daily")
    THEN FMul(FDiv(total_hours, FromNat(8)), rate_value)
  ELSE IF rate_type = Str("Weekly")
    THEN FMul(FDiv(total_hours, FMul(FromNat(8), FromNat(7))), rate_value)
  ELSE IF rate_type = Str("Monthly")
    THEN FMul(FDiv(total_hours, FMul(FromNat(8), FromNat(20))), rate_value)
  ELSE FZero

\* the rate-type chain of create_timesheet_invoice
InvoiceAmount(rate_type, total_hours, rate_value) ==
  IF rate_type = Str("Hourly") THEN FMul(total_hours, rate_value)
  ELSE IF rate_type = Str("Daily")
    THEN FMul(FDiv(total_hours, FromNat(8)), rate_value)
  ELSE IF rate_type = Str("Weekly")
    THEN FMul(FDiv(total_hours, FMul(FromNat(8), FromNat(5))), rate_value)
  ELSE IF rate_type = Str("Monthly")
    THEN FMul(FDiv(total_hours, FMul(FromNat(8), FromNat(20))), rate_value)
  ELSE FZero

\* days added to the second clock reading to obtain due_date
due_days == 30

\* InvoiceHandler.get_invoice
get_invoice(inv, invoice_number) == find_one(inv, [invoice_number |-> invoice_number])

\* InvoiceHandler.create_timesheet_invoice.  clk holds the clock readings of
\* the call: now (number generation), issue and due (the two later readings).
create_timesheet_invoice(ts, inv, rates, billing, clk, timesheet_id) ==
  LET timesheet == get_timesheet(ts, timesheet_id)
      project_id == Get(timesheet, "project_id")
      talent_id == Get(timesheet, "user_id")
      talent_invoice == find_one(rates, [project_id |-> project_id,
                                         talent_id |-> talent_id])
      rate_type == GetOr(talent_invoice, "talentInvoiceRateType", Str("Hourly"))
      rate_value == GetOr(talent_invoice, "talentInvoiceRateValue", FZero)
      currency == GetOr(talent_invoice, "talentInvoicingCurrency", Str("USD"))
      total_hours == GetOr(timesheet, "total_hours", FZero)
      invoice_amount == InvoiceAmount(rate_type, total_hours, rate_value)
      items == <<[description |-> [text |-> "Timesheet {timesheet_id} - {total_hours} hours",
                                   timesheet_id |-> timesheet_id,
                                   total_hours |-> total_hours],
                  quantity |-> total_hours,
                  rate |-> rate_value,
                  amount |-> invoice_amount,
                  rate_type |-> rate_type]>>
      invoice == [invoice_number |-> InvoiceNumber(clk.now),
                  project_id |-> project_id,
                  talent_id |-> talent_id,
                  timesheet_id |-> timesheet_id,
                  status |-> Str("draft"),
                  items |-> items,
                  currency |-> currency,
                  issue_date |-> strftime(strptime(clk.issue)),
                  due_date |-> strftime(strptime(clk.due) + due_days)]
  IN IF timesheet = None
       THEN Outcome(FALSE, Raise("Timesheet not found", timesheet_id), ts, inv,
                    <<"timesheets.find_one">>)
     ELSE IF talent_invoice = None
       THEN Outcome(FALSE, Raise("Talent invoice settings not found",
                                 [project_id |-> project_id, talent_id |-> talent_id]),
                    ts, inv, <<"timesheets.find_one", "talentInvoice.find_one">>)
     ELSE Outcome(TRUE, invoice, ts, insert_one(inv, invoice),
                  <<"timesheets.find_one", "talentInvoice.find_one",
                    "billingInformation.find_one", "invoices.insert_one">>)

\* the line items create_expense_invoice derives from an expense
ExpenseInvoiceItems(expense, expense_id) ==
  LET expense_items == GetOr(expense, "items", <<>>)
      total_amount == GetOr(expense, "total_amount", FZero)
  IN IF Len(expense_items) = 0
       THEN <<[description |-> [text |-> "Expense {expense_id}", expense_id |-> expense_id],
               quantity |-> FromNat(1),
               rate |-> total_amount,
               amount |-> total_amount]>>
       ELSE [i \in 1..Len(expense_items) |->
               [description |-> GetOr(expense_items[i], "description", Str("Expense item")),
                quantity |-> GetOr(expense_items[i], "quantity", FromNat(1)),
                rate |-> GetOr(expense_items[i], "amount", FZero),
                amount |-> GetOr(expense_items[i], "amount", FZero)]]

\* fault injection: create_expense_invoice storing no link to the expense
create_expense_invoice_unlinked(ts, inv, exps, clk, expense_id, talent_id) ==
  LET expense == get_expense(exps, expense_id)
      invoice == [invoice_number |-> InvoiceNumber(clk.now),
                  project_id |-> Get(expense, "project_id"),
                  talent_id |-> talent_id,
                  status |-> Str("draft"),
                  items |-> ExpenseInvoiceItems(expense, expense_id),
                  currency |-> GetOr(expense, "currency", Str("USD")),
                  issue_date |-> strftime(strptime(clk.issue)),
                  due_date |-> strftime(strptime(clk.due) + 30)]
  IN IF expense = None
       THEN Outcome(FALSE, Raise("Expense not found", expense_id), ts, inv,
                    <<"expenses.find_one">>)
       ELSE Outcome(TRUE, invoice, ts, insert_one(inv, invoice),
                    <<"expenses.find_one", "invoices.insert_one">>)

\* fault injection: create_expense_invoice marking the expense as invoiced
create_expense_invoice_marking(ts, inv, exps, clk, expense_id, talent_id) ==
  LET expense == get_expense(exps, expense_id)
      invoice == [invoice_number |-> InvoiceNumber(clk.now),
                  project_id |-> Get(expense, "project_id"),
                  talent_id |-> talent_id,
                  expense_id |-> expense_id,
                  status |-> Str("draft"),
                  items |-> ExpenseInvoiceItems(expense, expense_id),
                  currency |-> GetOr(expense, "currency", Str("USD")),
                  issue_date |-> strftime(strptime(clk.issue)),
                  due_date |-> strftime(strptime(clk.due) + 30)]
  IN IF expense = None
       THEN Outcome(FALSE, Raise("Expense not found", expense_id), ts, inv,
                    <<"expenses.find_one">>)
       ELSE Outcome(TRUE, invoice, ts, insert_one(inv, invoice),
                    <<"expenses.find_one", "invoices.insert_one",
                      "expenses.update_one">>)

\* InvoiceHandler.create_expense_invoice
create_expense_invoice(ts, inv, exps, clk, expense_id, talent_id) ==
  LET expense == get_expense(exps, expense_id)
      invoice == [invoice_number |-> InvoiceNumber(clk.now),
                  project_id |-> Get(expense, "project_id"),
                  talent_id |-> talent_id,
                  expense_id |-> expense_id,
                  status |-> Str("draft"),
                  items |-> ExpenseInvoiceItems(expense, expense_id),
                  currency |-> GetOr(expense, "currency", Str("USD")),
                  issue_date |-> strftime(strptime(clk.issue)),
                  due_date |-> strftime(strptime(clk.due) + 30)]
  IN IF expense = None
       THEN Outcome(FALSE, Raise("Expense not found", expense_id), ts, inv,
                    <<"expenses.find_one">>)
       ELSE Outcome(TRUE, invoice, ts, insert_one(inv, invoice),
                    <<"expenses.find_one", "invoices.insert_one">>)

\* valid_statuses of update_invoice_status
InvoiceStatuses == {Str("draft"), Str("sent"), Str("paid"), Str("cancelled")}

\* fault injection: update_invoice_status setting the status of every invoice
\* with the number (update_many)
update_invoice_status_many(ts, inv, invoice_number, status) ==
  IF status \notin InvoiceStatuses
    THEN Outcome(FALSE, Raise("Invalid status", status), ts, inv, <<>>)
  ELSE IF get_invoice(inv, invoice_number) = None
    THEN Outcome(FALSE, Raise("Invoice not found", invoice_number),
                 ts, inv, <<"invoices.update_one">>)
  ELSE Outcome(TRUE, [get_invoice(inv, invoice_number) EXCEPT !.status = status],
               ts,
               [i \in 1..Len(inv) |->
                  IF inv[i].invoice_number = invoice_number
                    THEN [inv[i] EXCEPT !.status = status] ELSE inv[i]],
               <<"invoices.update_one", "invoices.find_one">>)

\* fault injection: update_invoice_status testing the status after the write
update_invoice_status_late_check(ts, inv, invoice_number, status) ==
  LET result == update_one(inv, [invoice_number |-> invoice_number],
                           [status |-> status])
  IN IF result.modified_count = 0
       THEN Outcome(FALSE, Raise("Invoice not found", invoice_number),
                    ts, result.coll, <<"invoices.update_one">>)
     ELSE IF status \notin InvoiceStatuses
       THEN Outcome(FALSE, Raise("Invalid status", status), ts, result.coll,
                    <<"invoices.update_one">>)
     ELSE Outcome(TRUE, get_invoice(result.coll, invoice_number),
                  ts, result.coll,
                  <<"invoices.update_one", "invoices.find_one">>)

\* fault injection: update_invoice_status without the test of the status
update_invoice_status_unchecked(ts, inv, invoice_number, status) ==
  LET result == update_one(inv, [invoice_number |-> invoice_number],
                           [status |-> status])
  IN IF result.modified_count = 0
       THEN Outcome(FALSE, Raise("Invoice not found", invoice_number),
                    ts, result.coll, <<"invoices.update_one">>)
       ELSE Outcome(TRUE, get_invoice(result.coll, invoice_number),
                    ts, result.coll,
                    <<"invoices.update_one", "invoices.find_one">>)

\* InvoiceHandler.update_invoice_status
update_invoice_status(ts, inv, invoice_number, status) ==
  IF status \notin InvoiceStatuses
    THEN Outcome(FALSE, Raise("Invalid status", status), ts, inv, <<>>)
  ELSE LET result == update_one(inv, [invoice_number |-> invoice_number],
                                [status |-> status])
       IN IF result.modified_count = 0
            THEN Outcome(FALSE, Raise("Invoice not found", invoice_number),
                         ts, result.coll, <<"invoices.update_one">>)
            ELSE Outcome(TRUE, get_invoice(result.coll, invoice_number),
                         ts, result.coll,
                         <<"invoices.update_one", "invoices.find_one">>)

\* InvoiceHandler.list_invoices, as the orchestrator calls it (no date bounds)
list_invoices(inv, status, project_id, talent_id) ==
  LET Test(doc) ==
        /\ Truthy(status) => doc.status = status
        /\ Truthy(project_id) => doc.project_id = project_id
        /\ Truthy(talent_id) => doc.talent_id = talent_id
  IN SelectSeq(inv, Test)

\* ------------------------------------------------------------------------
\* EntityExtractor.extract_all_entities and IntentClassifier

\* a dict without the keys whose value is None
DropNone(d) == [k \in {kk \in DOMAIN d : d[kk] # None} |-> d[k]]

\* d.update(u)
Update(d, u) == u @@ d

\* entities[k] = v
SetKey(d, k, v) == (k :> v) @@ d

\* "if not entities.get(k): entities[k] = <regex value>"
FillKey(d, k, v) == IF Truthy(Get(d, k)) THEN d ELSE SetKey(d, k, v)

\* ---- EntityExtractor.extract_dates.  A text is the sequence of its
\* characters.

\* str.lower()
Lower(text) ==
  LET upper == <<"A", "B", "C", "D", "E", "F", "G", "H", "I", "J", "K", "L", "M", "N", "O", "P", "Q", "R", "S", "T", "U", "V", "W", "X", "Y", "Z">>
      lower == <<"a", "b", "c", "d", "e", "f", "g", "h", "i", "j", "k", "l", "m", "n", "o", "p", "q", "r", "s", "t", "u", "v", "w", "x", "y", "z">>
  IN [i \in 1..Len(text) |->
        IF \E n \in 1..26 : upper[n] = text[i]
          THEN lower[CHOOSE n \in 1..26 : upper[n] = text[i]]
          ELSE text[i]]

\* the characters \d and \s match
Digits == <<"0", "1", "2", "3", "4", "5", "6", "7", "8", "9">>
Whitespace == {" ", "\t", "\n"}

\* int(c) of a digit
DigitVal(c) == (CHOOSE n \in 1..10 : Digits[n] = c) - 1

\* the word stands in the text at position i
StartsAt(text, i, word) ==
  /\ i + Len(word) - 1 <= Len(text)
  /\ \A j \in 1..Len(word) : text[i + j - 1] = word[j]

\* "word in text[:match.start()]" for a match starting at position i
ContainsBefore(text, i, word) ==
  \E j \in 1..(i - Len(word)) : StartsAt(text, j, word)

\* month_patterns, in the order of the dict: name(?:rest)?\s+(\d{1,2})
MonthNames ==
  <<[short |-> <<"j", "a", "n">>, rest |-> <<"u", "a", "r", "y">>],
    [short |-> <<"f", "e", "b">>, rest |-> <<"r", "u", "a", "r", "y">>],
    [short |-> <<"m", "a", "r">>, rest |-> <<"c", "h">>],
    [short |-> <<"a", "p", "r">>, rest |-> <<"i", "l">>],
    [short |-> <<"m", "a", "y">>, rest |-> <<>>],
    [short |-> <<"j", "u", "n">>, rest |-> <<"e">>],
    [short |-> <<"j", "u", "l">>, rest |-> <<"y">>],
    [short |-> <<"a", "u", "g">>, rest |-> <<"u", "s", "t">>],
    [short |-> <<"s", "e", "p">>, rest |-> <<"t", "e", "m", "b", "e", "r">>],
    [short |-> <<"o", "c", "t">>, rest |-> <<"o", "b", "e", "r">>],
    [short |-> <<"n", "o", "v">>, rest |-> <<"e", "m", "b", "e", "r">>],
    [short |-> <<"d", "e", "c">>, rest |-> <<"e", "m", "b", "e", "r">>]>>

\* the first position from i on that holds no whitespace
SkipSpace(text, i) ==
  CHOOSE j \in i..(Len(text) + 1) :
    /\ j = Len(text) + 1 \/ text[j] \notin Whitespace
    /\ \A k \in i..(j - 1) : text[k] \in Whitespace

\* (\d{1,2}) at position i: int(match.group(1)), or -1 when no digit is there
DayAt(text, i) ==
  IF i > Len(text) \/ \A n \in 1..10 : Digits[n] # text[i] THEN -1
  ELSE IF i + 1 <= Len(text) /\ \E n \in 1..10 : Digits[n] = text[i + 1]
    THEN 10 * DigitVal(text[i]) + DigitVal(text[i + 1])
  ELSE DigitVal(text[i])

\* \s+(\d{1,2}) at position i
DayAfter(text, i) ==
  IF i > Len(text) \/ text[i] \notin Whitespace THEN -1
  ELSE DayAt(text, SkipSpace(text, i))

\* the day of the match of a month pattern that starts at position i of the
\* lower-cased text (re.IGNORECASE), or -1 when the pattern does not match there
MonthDay(text, i, name) ==
  IF ~StartsAt(text, i, name.short) THEN -1
  ELSE DayAfter(text, i + Len(name.short)
                        + (IF StartsAt(text, i + Len(name.short), name.rest)
                             THEN Len(name.rest) ELSE 0))

\* the body of the loop over the matches: the key the date of a match at
\* position i goes to
Place(dates, text, i, date_str) ==
  IF ContainsBefore(text, i, <<"s", "t", "a", "r", "t">>) \/ ContainsBefore(text, i, <<"f", "r", "o", "m">>)
    THEN SetKey(dates, "start_date", date_str)
  ELSE IF ContainsBefore(text, i, <<"e", "n", "d">>) \/ ContainsBefore(text, i, <<"t", "o">>)
    THEN SetKey(dates, "end_date", date_str)
  ELSE IF "start_date" \notin DOMAIN dates
    THEN SetKey(dates, "start_date", date_str)
  ELSE SetKey(dates, "end_date", date_str)

\* re.finditer: the position of the first match of the month pattern from
\* position i on, 0 when there is none
NextMatch(text, i, name) ==
  IF \A j \in i..Len(text) : MonthDay(text, j, name) < 0 THEN 0
  ELSE CHOOSE j \in i..Len(text) :
         /\ MonthDay(text, j, name) >= 0
         /\ \A k \in i..(j - 1) : MonthDay(text, k, name) < 0

\* the two loops: over month_patterns in dict order and, for each pattern,
\* over its matches in text order (match is the position of the next match
\* of the month's pattern); text is lower-cased
RECURSIVE MonthDates(_, _, _, _, _)
MonthDates(dates, text, current_year, month, match) ==
  IF month > 12 THEN dates
  ELSE IF match = 0
    THEN MonthDates(dates, text, current_year, month + 1,
                    IF month < 12 THEN NextMatch(text, 1, MonthNames[month + 1]) ELSE 0)
  ELSE MonthDates(Place(dates, text, match,
                        Date(current_year, month,
                             MonthDay(text, match, MonthNames[month]))),
                  text, current_year, month,
                  NextMatch(text, match + 1, MonthNames[month]))

\* DATE_PATTERN \d{4}-\d{2}-\d{2} matches at position i
DateAt(text, i) ==
  /\ i + 9 <= Len(text)
  /\ \A j \in {0, 1, 2, 3, 5, 6, 8, 9} : \E n \in 1..10 : Digits[n] = text[i + j]
  /\ text[i + 4] = "-"
  /\ text[i + 7] = "-"

\* re.findall(DATE_PATTERN, text) from position i on: the matches from left
\* to right, none overlapping another
RECURSIVE DateMatches(_, _)
DateMatches(text, i) ==
  IF i > Len(text) THEN <<>>
  ELSE IF DateAt(text, i)
    THEN <<Date(1000 * DigitVal(text[i]) + 100 * DigitVal(text[i + 1])
                  + 10 * DigitVal(text[i + 2]) + DigitVal(text[i + 3]),
                10 * DigitVal(text[i + 5]) + DigitVal(text[i + 6]),
                10 * DigitVal(text[i + 8]) + DigitVal(text[i + 9]))>>
         \o DateMatches(text, i + 10)
  ELSE DateMatches(text, i + 1)

\* fault injection: explicit dates filling only the keys the month names left
ExplicitDates_fill(dates, date_matches) ==
  IF Len(date_matches) >= 2
    THEN dates @@ [start_date |-> date_matches[1], end_date |-> date_matches[2]]
  ELSE IF Len(date_matches) = 1
    THEN dates @@ [start_date |-> date_matches[1]]
  ELSE dates

\* "Add explicit date matches"
ExplicitDates(dates, date_matches) ==
  IF Len(date_matches) >= 2
    THEN SetKey(SetKey(dates, "start_date", date_matches[1]), "end_date", date_matches[2])
  ELSE IF Len(date_matches) = 1
    THEN SetKey(dates, "start_date", date_matches[1])
  ELSE dates

\* EntityExtractor.extract_dates; current_year is datetime.now().year
extract_dates(text, current_year) ==
  ExplicitDates(MonthDates(<<>>, Lower(text), current_year, 1,
                           NextMatch(Lower(text), 1, MonthNames[1])),
                DateMatches(text, 1))

\* ---- EntityExtractor.extract_timesheet_id, extract_invoice_number and
\* extract_uuid.  A str result is given by its characters.

\* n characters from position i on, every one in the set
AllIn(text, i, n, chars) ==
  /\ i + n - 1 <= Len(text)
  /\ \A j \in 0..(n - 1) : text[i + j] \in chars

\* <prefix>\d{6}-\d+ under re.IGNORECASE at position i: the position of the
\* last character of the match (\d+ takes every digit that follows), 0 when
\* the pattern does not match there
IdEnd(text, i, prefix) ==
  IF /\ StartsAt(Lower(text), i, prefix)
     /\ AllIn(text, i + Len(prefix) + 7, 1, {Digits[n] : n \in 1..10})
     /\ AllIn(text, i + Len(prefix), 6, {Digits[n] : n \in 1..10})
     /\ text[i + Len(prefix) + 6] = "-"
    THEN CHOOSE e \in (i + Len(prefix) + 7)..Len(text) :
           /\ \A k \in (i + Len(prefix) + 7)..e : \E n \in 1..10 : Digits[n] = text[k]
           /\ e = Len(text) \/ \A n \in 1..10 : Digits[n] # text[e + 1]
    ELSE 0

\* the characters [0-9a-f] matches under re.IGNORECASE, lower-cased
HexDigits == {Digits[n] : n \in 1..10} \cup {"a", "b", "c", "d", "e", "f"}

\* UUID_PATTERN at position i: the position of the last character of the
\* match, 0 when the pattern does not match there
UuidEnd(text, i) ==
  IF /\ AllIn(Lower(text), i + 24, 12, HexDigits)
     /\ AllIn(Lower(text), i, 8, HexDigits)
     /\ AllIn(Lower(text), i + 9, 4, HexDigits)
     /\ AllIn(Lower(text), i + 14, 4, HexDigits)
     /\ AllIn(Lower(text), i + 19, 4, HexDigits)
     /\ \A j \in {8, 13, 18, 23} : text[i + j] = "-"
    THEN i + 35
    ELSE 0

\* "match = re.search(PATTERN, text, re.IGNORECASE);
\*  return match.group() if match else None": the leftmost match
Search(text, EndAt(_, _)) ==
  IF \A i \in 1..Len(text) : EndAt(text, i) = 0 THEN None
  ELSE [chars |-> SubSeq(text,
                       CHOOSE i \in 1..Len(text) :
                         EndAt(text, i) > 0 /\ \A j \in 1..(i - 1) : EndAt(text, j) = 0,
                       EndAt(text, CHOOSE i \in 1..Len(text) :
                         EndAt(text, i) > 0 /\ \A j \in 1..(i - 1) : EndAt(text, j) = 0))]

\* fault injection: extract_timesheet_id searching the lower-cased text
extract_timesheet_id_lowered(text) ==
  Search(Lower(text), LAMBDA t, i : IdEnd(t, i, <<"t", "s", "-">>))

\* EntityExtractor.extract_timesheet_id
extract_timesheet_id(text) == Search(text, LAMBDA t, i : IdEnd(t, i, <<"t", "s", "-">>))

\* EntityExtractor.extract_invoice_number
extract_invoice_number(text) == Search(text, LAMBDA t, i : IdEnd(t, i, <<"i", "n", "v", "-">>))

\* EntityExtractor.extract_uuid
extract_uuid(text) == Search(text, UuidEnd)

\* fault injection: extract_all_entities letting the regex value of an
\* identifier, status or currency replace the language model's
extract_all_entities_regex_first(llm_entities, rx) ==
  DropNone(Update(Update(llm_entities, rx.dates), rx.numbers)
           @@ DropNone([k \in {"timesheet_id", "invoice_number", "expense_id",
                               "status", "currency"} |-> rx[k]])
           @@ [k \in {"timesheet_id", "invoice_number", "expense_id",
                      "status", "currency"} |-> None])

\* EntityExtractor.extract_all_entities.  rx holds what the regex extractors
\* return for the raw text: an optional value for timesheet_id,
\* invoice_number, expense_id (extract_uuid), status and currency, and the
\* dicts returned by extract_dates and extract_numbers.
extract_all_entities(llm_entities, rx) ==
  LET e1 == FillKey(llm_entities, "timesheet_id", rx.timesheet_id)
      e2 == FillKey(e1, "invoice_number", rx.invoice_number)
      e3 == FillKey(e2, "expense_id", rx.expense_id)
      e4 == Update(e3, rx.dates)
      e5 == FillKey(e4, "status", rx.status)
      e6 == Update(e5, rx.numbers)
      e7 == FillKey(e6, "currency", rx.currency)
  IN DropNone(e7)

\* str.upper() on the strings the language model may return for intent and
\* entity_type
Upper(s) ==
  CASE s = "create" -> "CREATE"
    [] s = "Read" -> "READ"
    [] s = "update" -> "UPDATE"
    [] s = "delete" -> "DELETE"
    [] s = "query" -> "QUERY"
    [] s = "timesheet" -> "TIMESHEET"
    [] s = "Invoice" -> "INVOICE"
    [] s = "expense" -> "EXPENSE"
    [] s = "project" -> "PROJECT"
    [] s = "talent" -> "TALENT"
    [] s = "remove" -> "REMOVE"
    [] s = "client" -> "CLIENT"
    [] OTHER -> s

\* the members of the Intent and EntityType enumerations
Intent == {"CREATE", "READ", "UPDATE", "DELETE", "QUERY"}
EntityType == {"TIMESHEET", "INVOICE", "EXPENSE", "PROJECT", "TALENT"}

\* IntentClassifier.classify: the member of Intent returned, or
\* "AttributeError" for the exception that leaves it when the intent field
\* holds a value without an upper method (only ValueError is caught)
classify(parsed_query) ==
  LET intent == GetOr(parsed_query, "intent", Str("QUERY"))
  IN IF DOMAIN intent # {"s"} THEN "AttributeError"
     ELSE IF Upper(intent.s) \in Intent THEN Upper(intent.s) ELSE "QUERY"

\* IntentClassifier.get_entity_type: the member of EntityType returned, "None"
\* for no entity type, or "AttributeError" for the exception that leaves it
\* when the field holds a truthy value without an upper method
get_entity_type(parsed_query) ==
  LET entity_type_str == Get(parsed_query, "entity_type")
  IN IF ~Truthy(entity_type_str) THEN "None"
     ELSE IF DOMAIN entity_type_str # {"s"} THEN "AttributeError"
     ELSE IF Upper(entity_type_str.s) \in EntityType
       THEN Upper(entity_type_str.s) ELSE "None"

\* ------------------------------------------------------------------------
\* BotOrchestrator.  db is the store: one collection per field.  Every
\* private method yields the Outcome of the handler calls it makes; val is
\* the result dict it returns or the exception that leaves it.

\* an exception raised by the orchestrator itself, before any handler call
Reject(db, text, arg) == Outcome(FALSE, Raise(text, arg), db.timesheets, db.invoices, <<>>)

\* the result dict built from a handler's return value; a handler's
\* exception passes through
Result(o, operation, message, entity_type) ==
  IF o.ok
    THEN [o EXCEPT !.val = [operation |-> operation, data |-> o.val,
                            message |-> message, entity_type |-> entity_type]]
    ELSE o

\* the default hours_per_day
DefaultHours == FromNat(8)

\* BotOrchestrator._create_timesheet
_create_timesheet(db, clk, entities) ==
  LET project_id == Get(entities, "project_id")
      talent_id == Or(Get(entities, "talent_id"), Get(entities, "user_id"))
      start_date == Get(entities, "start_date")
      end_date == Get(entities, "end_date")
      hours_per_day == GetOr(entities, "hours", DefaultHours)
  IN IF ~(Truthy(project_id) /\ Truthy(talent_id) /\ Truthy(start_date)
          /\ Truthy(end_date))
       THEN Reject(db, "Missing required fields: project_id, talent_id, start_date, end_date", None)
       ELSE Result(create_timesheet(db.timesheets, db.invoices, clk.now, project_id,
                                    talent_id, start_date, end_date, hours_per_day),
                   "create_timesheet", Str("Created timesheet"), None)

\* fault injection: _create_invoice without the talent_id check of the
\* expense branch
_create_invoice_unchecked(db, clk, entities) ==
  LET timesheet_id == Get(entities, "timesheet_id")
      expense_id == Get(entities, "expense_id")
      talent_id == Or(Get(entities, "talent_id"), Get(entities, "user_id"))
  IN IF Truthy(timesheet_id)
       THEN Result(create_timesheet_invoice(db.timesheets, db.invoices, db.talentInvoice,
                                            db.billingInformation, clk, timesheet_id),
                   "create_timesheet_invoice", Str("Created invoice from timesheet"), None)
     ELSE IF Truthy(expense_id)
       THEN Result(create_expense_invoice(db.timesheets, db.invoices, db.expenses,
                                          clk, expense_id, talent_id),
                   "create_expense_invoice", Str("Created invoice from expense"), None)
     ELSE Reject(db, "Either timesheet_id or expense_id required", None)

\* BotOrchestrator._create_invoice
_create_invoice(db, clk, entities) ==
  LET timesheet_id == Get(entities, "timesheet_id")
      expense_id == Get(entities, "expense_id")
      talent_id == Or(Get(entities, "talent_id"), Get(entities, "user_id"))
  IN IF Truthy(timesheet_id)
       THEN Result(create_timesheet_invoice(db.timesheets, db.invoices, db.talentInvoice,
                                            db.billingInformation, clk, timesheet_id),
                   "create_timesheet_invoice", Str("Created invoice from timesheet"), None)
     ELSE IF Truthy(expense_id)
       THEN IF ~Truthy(talent_id)
              THEN Reject(db, "talent_id required for expense invoice", None)
              ELSE Result(create_expense_invoice(db.timesheets, db.invoices, db.expenses,
                                                 clk, expense_id, talent_id),
                          "create_expense_invoice", Str("Created invoice from expense"), None)
     ELSE Reject(db, "Either timesheet_id or expense_id required", None)

\* a handler read: the value found, the store untouched
Read(db, val, op) == Outcome(TRUE, val, db.timesheets, db.invoices, <<op>>)

\* "if not <doc>: raise ValueError(f'<Entity> {key} not found')" after a get
FoundOr(db, doc, op, text, key, operation, entity_type) ==
  IF doc = None
    THEN Outcome(FALSE, Raise(text, key), db.timesheets, db.invoices, <<op>>)
    ELSE Result(Read(db, doc, op), operation, None, Str(entity_type))

\* BotOrchestrator._read_timesheet
_read_timesheet(db, entities) ==
  LET timesheet_id == Get(entities, "timesheet_id")
  IN IF Truthy(timesheet_id)
       THEN FoundOr(db, get_timesheet(db.timesheets, timesheet_id), "timesheets.find_one",
                    "Timesheet not found", timesheet_id, "get_timesheet", "TIMESHEET")
       ELSE Result(Read(db, list_timesheets(db.timesheets,
                                            Get(entities, "project_id"),
                                            Or(Get(entities, "talent_id"), Get(entities, "user_id")),
                                            Get(entities, "status"),
                                            Get(entities, "start_date"),
                                            Get(entities, "end_date")),
                        "timesheets.find"),
                   "list_timesheets", None, Str("TIMESHEET"))

\* BotOrchestrator._read_invoice
_read_invoice(db, entities) ==
  LET invoice_number == Get(entities, "invoice_number")
  IN IF Truthy(invoice_number)
       THEN FoundOr(db, get_invoice(db.invoices, invoice_number), "invoices.find_one",
                    "Invoice not found", invoice_number, "get_invoice", "INVOICE")
       ELSE Result(Read(db, list_invoices(db.invoices,
                                          Get(entities, "status"),
                                          Get(entities, "project_id"),
                                          Or(Get(entities, "talent_id"), Get(entities, "user_id"))),
                        "invoices.find"),
                   "list_invoices", None, Str("INVOICE"))

\* BotOrchestrator._read_expense
_read_expense(db, entities) ==
  LET expense_id == Get(entities, "expense_id")
  IN IF Truthy(expense_id)
       THEN FoundOr(db, get_expense(db.expenses, expense_id), "expenses.find_one",
                    "Expense not found", expense_id, "get_expense", "EXPENSE")
       ELSE Result(Read(db, list_expenses(db.expenses,
                                          Get(entities, "project_id"),
                                          Or(Get(entities, "talent_id"), Get(entities, "user_id")),
                                          Get(entities, "status")),
                        "expenses.find"),
                   "list_expenses", None, Str("EXPENSE"))

\* BotOrchestrator._read_project
_read_project(db, entities) ==
  LET project_id == Get(entities, "project_id")
  IN IF ~Truthy(project_id) THEN Reject(db, "project_id required", None)
     ELSE FoundOr(db, get_project(db.projects, project_id), "projects.find_one",
                  "Project not found", project_id, "get_project", "PROJECT")

\* BotOrchestrator._read_talent
_read_talent(db, entities) ==
  LET talent_id == Or(Get(entities, "talent_id"), Get(entities, "user_id"))
  IN IF ~Truthy(talent_id) THEN Reject(db, "talent_id or user_id required", None)
     ELSE FoundOr(db, get_talent(db.talents, talent_id), "talents.find_one",
                  "Talent not found", talent_id, "get_talent", "TALENT")

\* fault injection: _update_timesheet looking at the dates before the status
_update_timesheet_dates_first(db, entities) ==
  LET timesheet_id == Get(entities, "timesheet_id")
      start_date == Get(entities, "start_date")
      end_date == Get(entities, "end_date")
      status == Get(entities, "status")
      hours == Get(entities, "hours")
  IN IF ~Truthy(timesheet_id) THEN Reject(db, "timesheet_id required", None)
     ELSE IF Truthy(start_date) /\ Truthy(end_date)
       THEN Result(update_timesheet_dates(db.timesheets, db.invoices, timesheet_id,
                                          start_date, end_date,
                                          IF Truthy(hours) THEN hours ELSE DefaultHours),
                   "update_timesheet_dates", Str("Updated timesheet date range"), None)
     ELSE IF Truthy(status)
       THEN Result(update_timesheet_status(db.timesheets, db.invoices, timesheet_id, status),
                   "update_timesheet_status", Str("Updated timesheet status"), None)
     ELSE Reject(db, "Either status or start_date/end_date required for update", None)

\* BotOrchestrator._update_timesheet
_update_timesheet(db, entities) ==
  LET timesheet_id == Get(entities, "timesheet_id")
      start_date == Get(entities, "start_date")
      end_date == Get(entities, "end_date")
      status == Get(entities, "status")
      hours == Get(entities, "hours")
  IN IF ~Truthy(timesheet_id) THEN Reject(db, "timesheet_id required", None)
     ELSE IF Truthy(status)
       THEN Result(update_timesheet_status(db.timesheets, db.invoices, timesheet_id, status),
                   "update_timesheet_status", Str("Updated timesheet status"), None)
     ELSE IF Truthy(start_date) /\ Truthy(end_date)
       THEN Result(update_timesheet_dates(db.timesheets, db.invoices, timesheet_id,
                                          start_date, end_date,
                                          IF Truthy(hours) THEN hours ELSE DefaultHours),
                   "update_timesheet_dates", Str("Updated timesheet date range"), None)
     ELSE Reject(db, "Either status or start_date/end_date required for update", None)

\* BotOrchestrator._update_invoice
_update_invoice(db, entities) ==
  LET invoice_number == Get(entities, "invoice_number")
      status == Get(entities, "status")
  IN IF ~Truthy(invoice_number) THEN Reject(db, "invoice_number required", None)
     ELSE IF ~Truthy(status) THEN Reject(db, "status required for invoice update", None)
     ELSE Result(update_invoice_status(db.timesheets, db.invoices, invoice_number, status),
                 "update_invoice_status", Str("Updated invoice status"), None)

\* the branch BotOrchestrator._generic_query takes
GenericBranch(entities) ==
  IF Truthy(Get(entities, "timesheet_id")) THEN "_read_timesheet"
  ELSE IF Truthy(Get(entities, "invoice_number")) THEN "_read_invoice"
  ELSE IF Truthy(Get(entities, "expense_id")) THEN "_read_expense"
  ELSE IF Truthy(Get(entities, "project_id")) THEN "_read_project"
  ELSE "list_timesheets"

\* BotOrchestrator._generic_query
_generic_query(db, entities) ==
  CASE GenericBranch(entities) = "_read_timesheet" -> _read_timesheet(db, entities)
    [] GenericBranch(entities) = "_read_invoice" -> _read_invoice(db, entities)
    [] GenericBranch(entities) = "_read_expense" -> _read_expense(db, entities)
    [] GenericBranch(entities) = "_read_project" -> _read_project(db, entities)
    [] OTHER ->
         Result(Read(db, list_timesheets(db.timesheets,
                                         Get(entities, "project_id"),
                                         Or(Get(entities, "talent_id"), Get(entities, "user_id")),
                                         Get(entities, "status"),
                                         None, None),
                     "timesheets.find"),
                "list_timesheets", None, Str("TIMESHEET"))

\* fault injection: the dispatch table with DELETE falling through to the
\* generic query
Dispatch_delete_as_query(intent, entity_type) ==
  IF intent = "CREATE"
    THEN (IF entity_type = "TIMESHEET" THEN "_create_timesheet"
          ELSE IF entity_type = "INVOICE" THEN "_create_invoice"
          ELSE "raise")
  ELSE IF intent = "READ"
    THEN (IF entity_type = "TIMESHEET" THEN "_read_timesheet"
          ELSE IF entity_type = "INVOICE" THEN "_read_invoice"
          ELSE IF entity_type = "EXPENSE" THEN "_read_expense"
          ELSE IF entity_type = "PROJECT" THEN "_read_project"
          ELSE IF entity_type = "TALENT" THEN "_read_talent"
          ELSE "_generic_query")
  ELSE IF intent = "UPDATE"
    THEN (IF entity_type = "TIMESHEET" THEN "_update_timesheet"
          ELSE IF entity_type = "INVOICE" THEN "_update_invoice"
          ELSE "raise")
  ELSE "_generic_query"

\* the branch BotOrchestrator._execute_operation takes: the private method it
\* calls, or "raise" when it raises ValueError itself
Dispatch(intent, entity_type) ==
  IF intent = "CREATE"
    THEN (IF entity_type = "TIMESHEET" THEN "_create_timesheet"
          ELSE IF entity_type = "INVOICE" THEN "_create_invoice"
          ELSE "raise")
  ELSE IF intent = "READ"
    THEN (IF entity_type = "TIMESHEET" THEN "_read_timesheet"
          ELSE IF entity_type = "INVOICE" THEN "_read_invoice"
          ELSE IF entity_type = "EXPENSE" THEN "_read_expense"
          ELSE IF entity_type = "PROJECT" THEN "_read_project"
          ELSE IF entity_type = "TALENT" THEN "_read_talent"
          ELSE "_generic_query")
  ELSE IF intent = "UPDATE"
    THEN (IF entity_type = "TIMESHEET" THEN "_update_timesheet"
          ELSE IF entity_type = "INVOICE" THEN "_update_invoice"
          ELSE "raise")
  ELSE IF intent = "QUERY" THEN "_generic_query"
  ELSE "raise"

\* BotOrchestrator._execute_operation
_execute_operation(db, clk, intent, entity_type, entities) ==
  LET branch == Dispatch(intent, entity_type)
  IN CASE branch = "_create_timesheet" -> _create_timesheet(db, clk, entities)
       [] branch = "_create_invoice" -> _create_invoice(db, clk, entities)
       [] branch = "_read_timesheet" -> _read_timesheet(db, entities)
       [] branch = "_read_invoice" -> _read_invoice(db, entities)
       [] branch = "_read_expense" -> _read_expense(db, entities)
       [] branch = "_read_project" -> _read_project(db, entities)
       [] branch = "_read_talent" -> _read_talent(db, entities)
       [] branch = "_update_timesheet" -> _update_timesheet(db, entities)
       [] branch = "_update_invoice" -> _update_invoice(db, entities)
       [] branch = "_generic_query" -> _generic_query(db, entities)
       [] OTHER ->
            IF intent = "CREATE"
              THEN Reject(db, "Create operation not supported for", Str(entity_type))
            ELSE IF intent = "UPDATE"
              THEN Reject(db, "Update operation not supported for", Str(entity_type))
            ELSE Reject(db, "Unsupported intent", Str(intent))

\* ------------------------------------------------------------------------
\* QueryParser.parse and BotOrchestrator.process_query

\* QueryParser.parse.  llm is what the chain produced: an exception with its
\* str(), text that is not JSON, or a JSON object (a dict).
parse(llm) ==
  IF llm.kind = "raise"
    THEN [intent |-> Str("QUERY"), entity_type |-> None, entities |-> <<>>,
          operation |-> None, confidence |-> FZero, error |-> llm.message]
  ELSE IF llm.kind = "text"
    THEN [intent |-> Str("QUERY"), entity_type |-> None, entities |-> <<>>,
          operation |-> None, confidence |-> FZero,
          error |-> Str("Failed to parse query")]
  ELSE LET parsed == llm.json
           defaults == [intent |-> Str("QUERY"), entity_type |-> None,
                        entities |-> <<>>, operation |-> None,
                        confidence |-> ParseFloat(8, 1)]
       IN parsed @@ defaults

\* the response dict of a failed request
Failure(error, message) ==
  [success |-> FALSE, error |-> error, message |-> message, result |-> None]

\* isinstance(data, list): the results whose data is a handler's list_* value
IsList(result) ==
  result.operation \in {"list_timesheets", "list_invoices", "list_expenses"}

\* BotOrchestrator._format_result: the formatter chosen and its argument
_format_result(result) ==
  IF Truthy(result.message)
    THEN [formatter |-> "format_success", message |-> result.message, data |-> result.data]
  ELSE IF IsList(result)
    THEN [formatter |-> "format_list", entity_type |-> result.entity_type, data |-> result.data]
  ELSE IF result.entity_type = Str("TIMESHEET")
    THEN [formatter |-> "format_timesheet", data |-> result.data]
  ELSE IF result.entity_type = Str("INVOICE")
    THEN [formatter |-> "format_invoice", data |-> result.data]
  ELSE IF result.entity_type = Str("EXPENSE")
    THEN [formatter |-> "format_expense", data |-> result.data]
  ELSE IF result.entity_type = Str("PROJECT")
    THEN [formatter |-> "format_project", data |-> result.data]
  ELSE [formatter |-> "str", data |-> result.data]

\* what a request did: whether the classifier ran, the private methods
\* _execute_operation called, and the store operations performed
Trace(classified, dispatched, ops) ==
  [classified |-> classified, dispatched |-> dispatched, ops |-> ops]

\* steps 4 and 5 of process_query and its except clause: the response built
\* from what _execute_operation returned or raised
Respond(parsed_query, intent, entity_type, entities, o) ==
  [resp |-> IF o.ok
              THEN [success |-> TRUE,
                    result |-> _format_result(o.val),
                    metadata |-> [intent |-> intent,
                                  entity_type |-> entity_type,
                                  entities |-> entities,
                                  confidence |-> parsed_query.confidence]]
              ELSE Failure("Processing error", o.val),
   timesheets |-> o.timesheets,
   invoices |-> o.invoices,
   trace |-> Trace(TRUE,
                   IF Dispatch(intent, entity_type) = "raise" THEN <<>>
                   ELSE <<Dispatch(intent, entity_type)>>,
                   o.ops)]

\* BotOrchestrator.process_query: the response, the collections afterwards,
\* and the trace of the request
process_query(db, clk, llm, rx) ==
  LET parsed_query == parse(llm)
      unchanged(resp, tr) == [resp |-> resp, timesheets |-> db.timesheets,
                              invoices |-> db.invoices, trace |-> tr]
  IN IF Truthy(Get(parsed_query, "error"))
       THEN unchanged(Failure("Query parsing failed", Get(parsed_query, "error")),
                      Trace(FALSE, <<>>, <<>>))
     ELSE IF parsed_query.entities = None
       THEN unchanged(Failure("Processing error",
                              Raise("'NoneType' object has no attribute 'copy'", None)),
                      Trace(FALSE, <<>>, <<>>))
     ELSE IF classify(parsed_query) = "AttributeError"
       THEN unchanged(Failure("Processing error",
                              Raise("object has no attribute 'upper'",
                                    parsed_query.intent)),
                      Trace(FALSE, <<>>, <<>>))
     ELSE IF get_entity_type(parsed_query) = "AttributeError"
       THEN unchanged(Failure("Processing error",
                              Raise("object has no attribute 'upper'",
                                    parsed_query.entity_type)),
                      Trace(FALSE, <<>>, <<>>))
     ELSE LET entities == extract_all_entities(parsed_query.entities, rx)
              intent == classify(parsed_query)
              entity_type == get_entity_type(parsed_query)
          IN Respond(parsed_query, intent, entity_type, entities,
                     _execute_operation(db, clk, intent, entity_type, entities))

\* ------------------------------------------------------------------------
\* database.connection

\* MongoClient(mongodb_uri, **client_options): a client no ping has gone
\* through yet
MongoClient(tls_allow_invalid) ==
  [tlsAllowInvalidCertificates |-> tls_allow_invalid, pinged |-> FALSE]

\* "_client = MongoClient(...)" followed by "_client.admin.command('ping')":
\* the module-level client afterwards and "ok" or the exception raised
Connect(current, tls_allow_invalid, construct, ping) ==
  IF construct # "ok" THEN [client |-> current, outcome |-> construct]
  ELSE IF ping # "ok" THEN [client |-> MongoClient(tls_allow_invalid), outcome |-> ping]
  ELSE [client |-> [MongoClient(tls_allow_invalid) EXCEPT !.pinged = TRUE],
        outcome |-> "ok"]

\* connection.get_mongodb_client.  env is what the call meets: whether
\* MONGODB_URI names an Atlas cluster, what constructing a client does and
\* what the first and the second ping do.
get_mongodb_client(current, env) ==
  IF current # None THEN [client |-> current, ok |-> TRUE, val |-> current]
  ELSE LET first == Connect(current, FALSE, env.construct, env.ping[1])
           second == Connect(first.client, TRUE, env.construct, env.ping[2])
       IN IF first.outcome = "ok"
            THEN [client |-> first.client, ok |-> TRUE, val |-> first.client]
          ELSE IF env.is_atlas /\ first.outcome = "CERTIFICATE_VERIFY_FAILED"
            THEN IF second.outcome = "ok"
                   THEN [client |-> second.client, ok |-> TRUE, val |-> second.client]
                   ELSE [client |-> second.client, ok |-> FALSE,
                         val |-> Raise(second.outcome, None)]
          ELSE [client |-> first.client, ok |-> FALSE,
                val |-> Raise(first.outcome, None)]

\* connection.get_database
get_database(current, db, env) ==
  IF db # None THEN [client |-> current, database |-> db, ok |-> TRUE, val |-> db]
  ELSE LET got == get_mongodb_client(current, env)
       IN IF got.ok
            THEN [client |-> got.client, database |-> [client |-> got.val],
                  ok |-> TRUE, val |-> [client |-> got.val]]
            ELSE [client |-> got.client, database |-> db, ok |-> FALSE,
                  val |-> got.val]

\* the client the handlers were built on
Connected == [MongoClient(FALSE) EXCEPT !.pinged = TRUE]

\* connection.close_connection
close_connection(current, db) ==
  IF current # None THEN [client |-> None, database |-> None]
                    ELSE [client |-> current, database |-> db]

\* ------------------------------------------------------------------------
\* State

VARIABLES
  timesheets,          \* collection "timesheets"
  invoices,            \* collection "invoices"
  expenses,            \* collection "expenses"
  projects,            \* collection "projects"
  talents,             \* collection "talents"
  talentInvoice,       \* collection "talentInvoice" (rate settings)
  billingInformation,  \* collection "billingInformation"
  pc,                  \* "idle", or "done" when a call has returned
  req,                 \* the call in progress: its operation and inputs
  resp,                \* what the call returned or raised
  trace,               \* what the call did (Trace)
  before,              \* the store as the call in progress found it
  client,              \* connection._client
  database             \* connection._database

vars == <<timesheets, invoices, expenses, projects, talents, talentInvoice,
          billingInformation, pc, req, resp, trace, before, client, database>>

\* what no handler writes: the collections that are only read, and the
\* connection
fixed == <<expenses, projects, talents, talentInvoice, billingInformation,
           client, database>>

\* the store as the orchestrator's handlers see it
Db == [timesheets |-> timesheets, invoices |-> invoices, expenses |-> expenses,
       projects |-> projects, talents |-> talents, talentInvoice |-> talentInvoice,
       billingInformation |-> billingInformation]

\* ------------------------------------------------------------------------
\* Inputs

\* most documents the timesheets collection and the invoices collection hold
MaxTimesheets == 1
MaxInvoices == 1

\* invoices the ledger holds at most
MaxLedger == 2

\* longest distance in days from a start_date to an end_date
MaxSpan == 5

\* the day the clock shows
Today == Date(2025, 10, 31)

\* microsecond fields of the clock readings
Micros == {148, 1149}

\* the clock readings of one call
Clocks == {[now |-> [date |-> Today, us |-> us], issue |-> Today, due |-> Today] :
             us \in Micros}

\* identifiers
T148 == [prefix |-> "TS", ym |-> 202510, n |-> 148]
T149 == [prefix |-> "TS", ym |-> 202510, n |-> 149]
N148 == [prefix |-> "INV", ym |-> 202510, n |-> 148]
N149 == [prefix |-> "INV", ym |-> 202510, n |-> 149]
E1 == Str("3f2504e0-4f89-11d3-9a0c-0305e82c3301")
E9 == Str("9f2504e0-4f89-11d3-9a0c-0305e82c3309")
P1 == Str("P1")
U1 == Str("U1")
U2 == Str("U2")

\* start dates and date ranges: a range across the leap day and a month
\* boundary, an inverted range, and a day the calendar does not have
FirstDay == Date(2024, 2, 27)
NoSuchDay == Date(2025, 2, 30)
Spans == {-1, 0, MaxSpan - 1, MaxSpan}
DateRanges ==
  {[start_date |-> FirstDay, end_date |-> strftime(strptime(FirstDay) + n)] : n \in Spans}
  \cup {[start_date |-> FirstDay, end_date |-> NoSuchDay]}

\* hours_per_day values: 8.0, 7.6, and a value that is not a number
Hours == {FromNat(8), ParseFloat(76, 1), Str("eight")}

\* the seeded read-only collections
SeedExpenses ==
  <<[expense_id |-> E1, project_id |-> P1, user_id |-> U1, status |-> Str("approved"),
     total_amount |-> FromNat(250), currency |-> Str("EUR")]>>
SeedProjects == <<[project_id |-> P1, name |-> Str("Apollo")]>>
SeedTalents == <<[user_id |-> U1, name |-> Str("Ada")]>>
SeedRates ==
  <<[project_id |-> P1, talent_id |-> U1, talentInvoiceRateType |-> Str("Daily"),
     talentInvoiceRateValue |-> FromNat(100), talentInvoicingCurrency |-> Str("USD")]>>

\* rate settings of (P1, U1): every rate type of the chain, one outside it,
\* a null, and settings without the rate keys
RateSettings ==
  {[project_id |-> P1, talent_id |-> U1, talentInvoiceRateType |-> t,
    talentInvoiceRateValue |-> v] :
     t \in {Str("Hourly"), Str("Daily"), Str("Weekly"), Str("Monthly"),
            Str("Quarterly"), None},
     v \in {FromNat(100), FromNat(3)}}
  \cup {[project_id |-> P1, talent_id |-> U1]}

\* most keys in the entities mapping the language model returns
MaxEntities == 2

\* a day after every range of DateRanges
LaterDay == Date(2024, 3, 10)

\* the values the language model may give each entity key
EntityValues ==
  [timesheet_id   |-> {T148},
   invoice_number |-> {N148},
   expense_id     |-> {E1},
   project_id     |-> {Empty, P1},
   talent_id      |-> {U1},
   user_id        |-> {U2},
   status         |-> {Str("approved"), Str("archived")},
   start_date     |-> {LaterDay}]

\* the entities mappings of the language model: at most MaxEntities keys
EntityDicts ==
  UNION {{d \in [K -> UNION {EntityValues[k] : k \in K}] :
            \A k \in K : d[k] \in EntityValues[k]} :
         K \in {KK \in SUBSET DOMAIN EntityValues : Cardinality(KK) <= MaxEntities}}

\* what the regex extractors find in the raw text: nothing, or two
\* YYYY-MM-DD tokens
NoRegex == [timesheet_id |-> None, invoice_number |-> None, expense_id |-> None,
            status |-> None, currency |-> None, dates |-> <<>>, numbers |-> <<>>]
RegexResults ==
  {NoRegex,
   [NoRegex EXCEPT !.dates = [start_date |-> FirstDay,
                              end_date |-> strftime(strptime(FirstDay) + 1)]]}

\* the entities mappings sent with the requests _execute_operation refuses
\* without looking at the mapping
FewDicts == {<<>>, [invoice_number |-> N148]}

\* the JSON objects of the language model whose intent and entity_type are
\* members of the enumerations (or a null entity_type): every entities
\* mapping for the pairs _execute_operation has a branch for, the mappings of
\* FewDicts for the other pairs
PlainJson ==
  {[intent |-> Str(i), entity_type |-> t, entities |-> e] :
     i \in {"READ", "QUERY"}, t \in {Str(x) : x \in EntityType} \cup {None},
     e \in EntityDicts}
  \cup {[intent |-> Str(i), entity_type |-> Str(t), entities |-> e] :
          i \in {"CREATE", "UPDATE"}, t \in {"TIMESHEET", "INVOICE"}, e \in EntityDicts}
  \cup {[intent |-> Str(i), entity_type |-> t, entities |-> e] :
          i \in Intent, t \in {Str(x) : x \in EntityType} \cup {None}, e \in FewDicts}

\* further JSON objects: keys left out, other letter case, values outside the
\* enumerations, nulls, numbers, and an object with an error key of its own
OddJson ==
  {[entities |-> [timesheet_id |-> T148]],
   [intent |-> Str("create"), entity_type |-> Str("Invoice"),
    entities |-> [expense_id |-> E1, talent_id |-> U1]],
   [intent |-> Str("remove"), entity_type |-> Str("client"), entities |-> <<>>],
   [intent |-> None, entity_type |-> None, entities |-> <<>>],
   [intent |-> FromNat(7), entity_type |-> Str("TIMESHEET"), entities |-> <<>>],
   [intent |-> Str("READ"), entity_type |-> FromNat(7),
    entities |-> [timesheet_id |-> T148]],
   [intent |-> Str("READ"), entity_type |-> Str("TIMESHEET"), entities |-> None],
   [intent |-> Str("READ"), entity_type |-> Str("TIMESHEET"), entities |-> <<>>,
    error |-> Str("ambiguous request")]}

\* what the chain produces for a query: an exception (with its str(), which
\* may be empty), text that is not JSON, or a JSON object
LlmOutputs ==
  {[kind |-> "raise", message |-> m] : m \in {Str("Connection error"), Empty}}
  \cup {[kind |-> "text"]}
  \cup {[kind |-> "json", json |-> j] : j \in PlainJson \cup OddJson}

\* ------------------------------------------------------------------------
\* Initial states

\* a timesheet stored by an earlier create_timesheet call: six days at 7.6
\* hours a day
SeedTimesheet ==
  create_timesheet(<<>>, <<>>, [date |-> Today, us |-> 148], P1, U1, FirstDay,
                   strftime(strptime(FirstDay) + MaxSpan), ParseFloat(76, 1)).val

InitStore ==
  /\ invoices = <<>>
  /\ expenses = SeedExpenses
  /\ projects = SeedProjects
  /\ talents = SeedTalents
  /\ billingInformation = <<>>
  /\ pc = "idle"
  /\ req = None
  /\ resp = None
  /\ trace = None
  /\ before = None
  /\ client = Connected
  /\ database = [client |-> Connected]

\* the orchestrator starts on an empty timesheets collection or on one that
\* holds a timesheet
Init ==
  /\ InitStore
  /\ timesheets \in {<<>>, <<SeedTimesheet>>}
  /\ talentInvoice = SeedRates

InitEmpty == InitStore /\ timesheets = <<>> /\ talentInvoice = SeedRates

InitRates == InitStore /\ timesheets = <<>> /\ \E r \in RateSettings : talentInvoice = <<r>>

\* ------------------------------------------------------------------------
\* Actions

\* a call returns: the store as the call leaves it, provided the invoices
\* collection grows to no more than max_invoices documents
ReturnsWithin(request, outcome, max_invoices) ==
  \E o \in {outcome} :
    /\ Len(o.timesheets) <= MaxTimesheets
    /\ (Len(o.invoices) <= max_invoices \/ Len(o.invoices) <= Len(invoices))
    /\ timesheets' = o.timesheets
    /\ invoices' = o.invoices
    /\ pc' = "done"
    /\ req' = request
    /\ resp' = [ok |-> o.ok, val |-> o.val]
    /\ trace' = Trace(FALSE, <<>>, o.ops)
    /\ before' = Db
    /\ UNCHANGED fixed

\* a call returns: the store as the call leaves it, provided it fits the model
Returns(request, outcome) == ReturnsWithin(request, outcome, MaxInvoices)

\* TimesheetHandler.create_timesheet(project_id, talent_id, start_date, end_date, hours_per_day)
CreateTimesheet ==
  /\ pc = "idle"
  /\ \E clk \in Clocks, r \in DateRanges, h \in Hours :
    Returns([op |-> "create_timesheet", project_id |-> P1, talent_id |-> U1,
             start_date |-> r.start_date, end_date |-> r.end_date, hours_per_day |-> h],
            create_timesheet(timesheets, invoices, clk.now, P1, U1,
                             r.start_date, r.end_date, h))

\* TimesheetHandler.update_timesheet_dates(timesheet_id, start_date, end_date, hours_per_day)
UpdateTimesheetDates ==
  /\ pc = "idle"
  /\ \E id \in {T148, T149}, r \in DateRanges, h \in Hours :
    Returns([op |-> "update_timesheet_dates", timesheet_id |-> id,
             start_date |-> r.start_date, end_date |-> r.end_date, hours_per_day |-> h],
            update_timesheet_dates(timesheets, invoices, id, r.start_date, r.end_date, h))

\* TimesheetHandler.update_timesheet_status(timesheet_id, status)
UpdateTimesheetStatus ==
  /\ pc = "idle"
  /\ \E id \in {T148, T149}, status \in {Str("approved"), Str("draft"), Str("sent")} :
    Returns([op |-> "update_timesheet_status", timesheet_id |-> id, status |-> status],
            update_timesheet_status(timesheets, invoices, id, status))

\* InvoiceHandler.create_timesheet_invoice(timesheet_id)
CreateTimesheetInvoice ==
  /\ pc = "idle"
  /\ \E clk \in Clocks, id \in {T148, T149} :
    Returns([op |-> "create_timesheet_invoice", timesheet_id |-> id],
            create_timesheet_invoice(timesheets, invoices, talentInvoice,
                                     billingInformation, clk, id))

\* the clock reading of a request: every request reads the same clock
\* (datetime.now() is read only in the create handlers)
ClockRead == CHOOSE clk \in Clocks : clk.now.us = 148

\* BotOrchestrator.process_query(query)
ProcessQuery ==
  /\ pc = "idle"
  /\ \E llm \in LlmOutputs, rx \in RegexResults :
    \E r \in {process_query(Db, ClockRead, llm, rx)} :
      /\ Len(r.timesheets) <= MaxTimesheets
      /\ Len(r.invoices) <= MaxInvoices
      /\ timesheets' = r.timesheets
      /\ invoices' = r.invoices
      /\ pc' = "done"
      /\ req' = [op |-> "process_query", llm |-> llm, rx |-> rx]
      /\ resp' = r.resp
      /\ trace' = r.trace
      /\ before' = Db
      /\ UNCHANGED fixed

\* the caller takes the result; the next call may start
Return ==
  /\ pc = "done"
  /\ pc' = "idle"
  /\ req' = None
  /\ resp' = None
  /\ trace' = None
  /\ before' = None
  /\ UNCHANGED <<timesheets, invoices>>
  /\ UNCHANGED fixed

\* the timesheet handler called directly
NextTimesheet == CreateTimesheet \/ UpdateTimesheetDates \/ UpdateTimesheetStatus \/ Return

SpecTimesheet == InitEmpty /\ [][NextTimesheet]_vars

\* timesheets invoiced under each rate setting
NextInvoice == CreateTimesheet \/ CreateTimesheetInvoice \/ Return

SpecInvoice == InitRates /\ [][NextInvoice]_vars

\* requests through the orchestrator
Next == ProcessQuery \/ Return

Spec == Init /\ [][Next]_vars

\* ---- the invoice ledger: both creation paths and the status update

\* what one creation reads from the clock: the reading of the id
\* (now.microsecond % 1000 goes into the number), the reading formatted as
\* issue_date and the later reading that due_date is computed from, on the
\* same day or, midnight having passed between the two, on the next
LedgerClocks ==
  {[now |-> [date |-> Today, us |-> us], issue |-> Today, due |-> due] :
     us \in Micros, due \in {Today, strftime(strptime(Today) + 1)}}

\* the ledger starts empty, over a stored timesheet, with or without a
\* billing-information record for its project
InitLedger ==
  /\ timesheets = <<SeedTimesheet>>
  /\ invoices = <<>>
  /\ expenses = SeedExpenses
  /\ projects = SeedProjects
  /\ talents = SeedTalents
  /\ talentInvoice = SeedRates
  /\ billingInformation \in
       {<<>>, <<[project_id |-> P1, supply_address |-> Str("1 Main St")]>>}
  /\ pc = "idle"
  /\ req = None
  /\ resp = None
  /\ trace = None
  /\ before = None
  /\ client = Connected
  /\ database = [client |-> Connected]

\* InvoiceHandler.create_timesheet_invoice(timesheet_id), at any clock reading
LedgerTimesheetInvoice ==
  /\ pc = "idle"
  /\ \E clk \in LedgerClocks, id \in {T148, T149} :
    ReturnsWithin([op |-> "create_timesheet_invoice", timesheet_id |-> id],
                  create_timesheet_invoice(timesheets, invoices, talentInvoice,
                                           billingInformation, clk, id),
                  MaxLedger)

\* InvoiceHandler.create_expense_invoice(expense_id, talent_id)
CreateExpenseInvoice ==
  /\ pc = "idle"
  /\ \E clk \in LedgerClocks, id \in {E1, E9}, talent_id \in {U1, U2} :
    ReturnsWithin([op |-> "create_expense_invoice", expense_id |-> id,
                   talent_id |-> talent_id],
                  create_expense_invoice(timesheets, invoices, expenses, clk,
                                         id, talent_id),
                  MaxLedger)

\* InvoiceHandler.update_invoice_status(invoice_number, status)
UpdateInvoiceStatus ==
  /\ pc = "idle"
  /\ \E number \in {N148, N149}, status \in InvoiceStatuses \cup {Str("approved")} :
    ReturnsWithin([op |-> "update_invoice_status", invoice_number |-> number,
                   status |-> status],
                  update_invoice_status(timesheets, invoices, number, status),
                  MaxLedger)

NextLedger ==
  \/ LedgerTimesheetInvoice
  \/ CreateExpenseInvoice
  \/ UpdateInvoiceStatus
  \/ UpdateTimesheetStatus
  \/ Return

SpecLedger == InitLedger /\ [][NextLedger]_vars

\* ---- regenerating a stored timesheet

\* the store holds a timesheet whose entries were given descriptions
InitDescribed ==
  /\ InitStore
  /\ timesheets =
       <<[SeedTimesheet EXCEPT
            !.entries = [i \in 1..Len(SeedTimesheet.entries) |->
                           [SeedTimesheet.entries[i] EXCEPT
                              !.description = Str("on site")]]]>>
  /\ talentInvoice = SeedRates

NextRegenerate == UpdateTimesheetDates \/ UpdateTimesheetStatus \/ Return

SpecRegenerate == InitDescribed /\ [][NextRegenerate]_vars

\* ---- the extractor: extract_dates and extract_all_entities on their own

\* month-name tokens, with the date each stands for in the current year
MonthPhrases ==
  {[chars |-> <<"O", "c", "t", " ", "1", "5">>,
    kind |-> "month", date |-> Date(Today.y, 10, 15)],   \* Oct 15
   [chars |-> <<"n", "o", "v", "e", "m", "b", "e", "r", " ", "7">>,
    kind |-> "month", date |-> Date(Today.y, 11, 7)],   \* november 7
   [chars |-> <<"M", "a", "y", " ", " ", "3">>,
    kind |-> "month", date |-> Date(Today.y, 5, 3)],   \* May  3
   [chars |-> <<"J", "a", "n", " ", "5">>,
    kind |-> "month", date |-> Date(Today.y, 1, 5)]}   \* Jan 5

\* YYYY-MM-DD tokens
IsoPhrases ==
  {[chars |-> <<"2", "0", "2", "5", "-", "1", "0", "-", "1", "5">>,
    kind |-> "iso", date |-> Date(2025, 10, 15)],   \* 2025-10-15
   [chars |-> <<"2", "0", "2", "5", "-", "1", "1", "-", "0", "7">>,
    kind |-> "iso", date |-> Date(2025, 11, 7)],   \* 2025-11-07
   [chars |-> <<"2", "0", "2", "5", "-", "1", "2", "-", "0", "1">>,
    kind |-> "iso", date |-> Date(2025, 12, 1)]}   \* 2025-12-01

\* no token
NoPhrase == [chars |-> <<>>, kind |-> "none", date |-> None]

\* how a text begins: with or without the keyword "from" before its first token
Heads ==
  {[chars |-> <<"C", "r", "e", "a", "t", "e", " ", "t", "i", "m", "e", "s", "h", "e", "e", "t", " ", "f", "r", "o", "m", " ">>, form |-> "from"],
   [chars |-> <<"f", "r", "o", "m", " ">>, form |-> "from"],
   [chars |-> <<"T", "i", "m", "e", "s", "h", "e", "e", "t", " ">>, form |-> "plain"],
   [chars |-> <<>>, form |-> "plain"],
   [chars |-> <<"H", "o", "u", "r", "s", " ", "e", "n", "d", "i", "n", "g", " ">>, form |-> "plain"]}

\* what stands between the first and the second token: " to ", " and ", " until "
Joins == {<<" ", "t", "o", " ">>, <<" ", "a", "n", "d", " ">>, <<" ", "u", "n", "t", "i", "l", " ">>}

\* the texts of the model, by their parts: a head, a token, a join, a second
\* token or none, a blank, a third token or none
TextParts ==
  {[head |-> h, join |-> j, phrases |-> <<a, b, c>>] :
     h \in Heads, j \in Joins, a \in MonthPhrases \cup IsoPhrases,
     b \in MonthPhrases \cup IsoPhrases \cup {NoPhrase},
     c \in {NoPhrase, CHOOSE m \in MonthPhrases : m.date.m = 1,
                     CHOOSE i \in IsoPhrases : i.date.m = 12}}

\* the text made of the parts
TextOf(parts) ==
  parts.head.chars \o parts.phrases[1].chars \o parts.join
    \o parts.phrases[2].chars \o <<" ">> \o parts.phrases[3].chars

\* the entities mappings of the language model given to extract_all_entities:
\* at most MaxEntities keys, each holding null, "" or a value
ExtractorValues ==
  [timesheet_id   |-> T148,
   invoice_number |-> N148,
   expense_id     |-> E9,
   status         |-> Str("approved"),
   currency       |-> Str("EUR"),
   start_date     |-> LaterDay,
   end_date       |-> LaterDay,
   hours          |-> ParseFloat(76, 1),
   amount         |-> FromNat(3),
   project_id     |-> P1]
ExtractorDicts ==
  UNION {{d \in [K -> {None, Empty} \cup {ExtractorValues[k] : k \in K}] :
            \A k \in K : d[k] \in {None, Empty, ExtractorValues[k]}} :
         K \in {KK \in SUBSET DOMAIN ExtractorValues : Cardinality(KK) <= MaxEntities}}

\* what the extractors other than extract_dates find in the raw text
RegexFinds ==
  {[timesheet_id |-> IF ids THEN T149 ELSE None,
    invoice_number |-> IF ids THEN N149 ELSE None,
    expense_id |-> IF ids THEN E1 ELSE None,
    status |-> st, currency |-> cur, dates |-> <<>>, numbers |-> num] :
     ids \in BOOLEAN, st \in {None, Str("draft")}, cur \in {None, Str("USD")},
     num \in {<<>>, [hours |-> FromNat(8)],
                [hours |-> FromNat(8), amount |-> FromNat(250)]}}

\* raw texts given to extract_all_entities: one without a date, one with two
\* month-name tokens, one with a YYYY-MM-DD token
ExtractorTexts ==
  {<<>>,
   <<"O", "c", "t", " ", "1", "5", " ", "a", "n", "d", " ", "N", "o", "v", " ", "7">>,
   <<"u", "n", "t", "i", "l", " ", "2", "0", "2", "5", "-", "1", "0", "-", "1", "5">>}

\* a pure function returns its value
Answers(request, value) ==
  /\ pc' = "done"
  /\ req' = request
  /\ resp' = value
  /\ trace' = None
  /\ before' = Db
  /\ UNCHANGED <<timesheets, invoices>>
  /\ UNCHANGED fixed

\* EntityExtractor.extract_dates(text)
ExtractDates ==
  /\ pc = "idle"
  /\ \E parts \in TextParts :
       Answers([op |-> "extract_dates", text |-> TextOf(parts), parts |-> parts],
               extract_dates(TextOf(parts), Today.y))

\* EntityExtractor.extract_all_entities(parsed_query, original_query)
ExtractAllEntities ==
  /\ pc = "idle"
  /\ \E entities \in ExtractorDicts, finds \in RegexFinds, text \in ExtractorTexts :
       \E rx \in {[finds EXCEPT !.dates = extract_dates(text, Today.y)]} :
         Answers([op |-> "extract_all_entities", entities |-> entities,
                  text |-> text, rx |-> rx],
                 extract_all_entities(entities, rx))

\* tokens for the identifier patterns, in either letter case, inside a word,
\* with too few or too many digits: what they are written as, the pattern
\* that matches in them and the substring it matches
IdPhrases ==
  {[chars |-> <<"T", "S", "-", "2", "0", "2", "5", "1", "0", "-", "1", "4", "8">>,
    kind |-> "ts", match |-> <<"T", "S", "-", "2", "0", "2", "5", "1", "0", "-", "1", "4", "8">>],
   [chars |-> <<"t", "s", "-", "2", "0", "2", "5", "1", "1", "-", "7">>,
    kind |-> "ts", match |-> <<"t", "s", "-", "2", "0", "2", "5", "1", "1", "-", "7">>],
   [chars |-> <<"x", "T", "s", "-", "2", "0", "2", "5", "1", "0", "-", "1", "4", "8", "0", ".">>,
    kind |-> "ts", match |-> <<"T", "s", "-", "2", "0", "2", "5", "1", "0", "-", "1", "4", "8", "0">>],
   [chars |-> <<"T", "S", "-", "2", "0", "2", "5", "1", "-", "1", "4", "8">>,
    kind |-> "none", match |-> <<>>],
   [chars |-> <<"I", "N", "V", "-", "2", "0", "2", "5", "1", "1", "-", "1", "8", "6">>,
    kind |-> "inv", match |-> <<"I", "N", "V", "-", "2", "0", "2", "5", "1", "1", "-", "1", "8", "6">>],
   [chars |-> <<"I", "n", "v", "-", "2", "0", "2", "5", "1", "0", "-", "9", "x">>,
    kind |-> "inv", match |-> <<"I", "n", "v", "-", "2", "0", "2", "5", "1", "0", "-", "9">>],
   [chars |-> <<"I", "N", "V", "-", "2", "0", "2", "5", "1", "0", "1", "-", "4", "8">>,
    kind |-> "none", match |-> <<>>],
   [chars |-> <<"6", "4", "7", "9", "b", "0", "9", "b", "-", "0", "7", "f", "3", "-", "4", "3", "3", "c", "-", "a", "a", "a", "e", "-", "d", "d", "c", "9", "b", "9", "b", "8", "f", "2", "1", "d">>,
    kind |-> "uuid", match |-> <<"6", "4", "7", "9", "b", "0", "9", "b", "-", "0", "7", "f", "3", "-", "4", "3", "3", "c", "-", "a", "a", "a", "e", "-", "d", "d", "c", "9", "b", "9", "b", "8", "f", "2", "1", "d">>],
   [chars |-> <<"0", "6", "4", "7", "9", "B", "0", "9", "B", "-", "0", "7", "F", "3", "-", "4", "3", "3", "c", "-", "A", "A", "A", "E", "-", "D", "D", "C", "9", "B", "9", "B", "8", "F", "2", "1", "D", "7">>,
    kind |-> "uuid", match |-> <<"6", "4", "7", "9", "B", "0", "9", "B", "-", "0", "7", "F", "3", "-", "4", "3", "3", "c", "-", "A", "A", "A", "E", "-", "D", "D", "C", "9", "B", "9", "B", "8", "F", "2", "1", "D">>],
   [chars |-> <<"6", "4", "7", "9", "b", "0", "9", "g", "-", "0", "7", "f", "3", "-", "4", "3", "3", "c", "-", "a", "a", "a", "e", "-", "d", "d", "c", "9", "b", "9", "b", "8", "f", "2", "1", "d">>,
    kind |-> "none", match |-> <<>>],
   [chars |-> <<>>, kind |-> "none", match |-> <<>>]}

\* the texts given to the identifier extractors, by their parts: a head, a
\* token, " and ", a second token
IdTextParts ==
  {[head |-> h, phrases |-> <<a, b>>] :
     h \in {<<>>,
           <<"S", "h", "o", "w", " ", "m", "e", " ", "t", "i", "m", "e", "s", "h", "e", "e", "t", " ">>,
           <<"I", "n", "v", "o", "i", "c", "e", " ", "t", "s", "-", "i", "n", "v", "-">>},
     a \in IdPhrases, b \in IdPhrases}

\* the text made of the parts
IdTextOf(parts) ==
  parts.head \o parts.phrases[1].chars \o <<" ", "a", "n", "d", " ">> \o parts.phrases[2].chars

\* EntityExtractor.extract_timesheet_id(text), extract_invoice_number(text),
\* extract_uuid(text)
ExtractId ==
  /\ pc = "idle"
  /\ \E parts \in IdTextParts :
       \/ Answers([op |-> "extract_id", kind |-> "ts", text |-> IdTextOf(parts),
                   parts |-> parts],
                  extract_timesheet_id(IdTextOf(parts)))
       \/ Answers([op |-> "extract_id", kind |-> "inv", text |-> IdTextOf(parts),
                   parts |-> parts],
                  extract_invoice_number(IdTextOf(parts)))
       \/ Answers([op |-> "extract_id", kind |-> "uuid", text |-> IdTextOf(parts),
                   parts |-> parts],
                  extract_uuid(IdTextOf(parts)))

NextExtractor == ExtractDates \/ ExtractAllEntities \/ ExtractId \/ Return

SpecExtractor == InitEmpty /\ [][NextExtractor]_vars

\* ---- natural keys: records created at several clock readings, read and
\* updated by key

\* documents the timesheets collection and the invoices collection hold at most
MaxKeyed == 2

\* the clock readings of a creation: one day, microsecond fields of which
\* two agree modulo 1000
KeyClocks ==
  {[now |-> [date |-> Today, us |-> us], issue |-> Today, due |-> Today] :
     us \in {148, 1148, 1149}}

\* the keys the readings give
KeyTimesheetIds == {TimesheetId(clk.now) : clk \in KeyClocks}
KeyInvoiceNumbers == {InvoiceNumber(clk.now) : clk \in KeyClocks}

\* a call returns, the collections holding no more than MaxKeyed documents
KeyedReturns(request, outcome) ==
  \E o \in {outcome} :
    /\ Len(o.timesheets) <= MaxKeyed
    /\ Len(o.invoices) <= MaxKeyed
    /\ timesheets' = o.timesheets
    /\ invoices' = o.invoices
    /\ pc' = "done"
    /\ req' = request
    /\ resp' = [ok |-> o.ok, val |-> o.val]
    /\ trace' = Trace(FALSE, <<>>, o.ops)
    /\ before' = Db
    /\ UNCHANGED fixed

\* TimesheetHandler.create_timesheet at a clock reading
KeyedCreateTimesheet ==
  /\ pc = "idle"
  /\ \E clk \in KeyClocks, n \in {0, 1} :
    KeyedReturns([op |-> "create_timesheet", clk |-> clk.now],
                 create_timesheet(timesheets, invoices, clk.now, P1, U1, FirstDay,
                                  strftime(strptime(FirstDay) + n), FromNat(8)))

\* InvoiceHandler.create_timesheet_invoice at a clock reading
KeyedTimesheetInvoice ==
  /\ pc = "idle"
  /\ \E clk \in KeyClocks :
    KeyedReturns([op |-> "create_timesheet_invoice", clk |-> clk.now],
                 create_timesheet_invoice(timesheets, invoices, talentInvoice,
                                          billingInformation, clk, T148))

\* InvoiceHandler.create_expense_invoice at a clock reading
KeyedExpenseInvoice ==
  /\ pc = "idle"
  /\ \E clk \in KeyClocks :
    KeyedReturns([op |-> "create_expense_invoice", clk |-> clk.now],
                 create_expense_invoice(timesheets, invoices, expenses, clk, E1, U1))

\* TimesheetHandler.get_timesheet and InvoiceHandler.get_invoice
KeyedGet ==
  /\ pc = "idle"
  /\ \/ \E id \in KeyTimesheetIds :
          KeyedReturns([op |-> "get_timesheet", timesheet_id |-> id],
                       Outcome(TRUE, get_timesheet(timesheets, id), timesheets,
                               invoices, <<"timesheets.find_one">>))
     \/ \E number \in KeyInvoiceNumbers :
          KeyedReturns([op |-> "get_invoice", invoice_number |-> number],
                       Outcome(TRUE, get_invoice(invoices, number), timesheets,
                               invoices, <<"invoices.find_one">>))

\* TimesheetHandler.update_timesheet_status and
\* InvoiceHandler.update_invoice_status
KeyedUpdateStatus ==
  /\ pc = "idle"
  /\ \/ \E id \in KeyTimesheetIds :
          KeyedReturns([op |-> "update_timesheet_status", timesheet_id |-> id,
                        status |-> Str("approved")],
                       update_timesheet_status(timesheets, invoices, id,
                                               Str("approved")))
     \/ \E number \in KeyInvoiceNumbers :
          KeyedReturns([op |-> "update_invoice_status", invoice_number |-> number,
                        status |-> Str("sent")],
                       update_invoice_status(timesheets, invoices, number,
                                             Str("sent")))

NextKeys ==
  \/ KeyedCreateTimesheet
  \/ KeyedTimesheetInvoice
  \/ KeyedExpenseInvoice
  \/ KeyedGet
  \/ KeyedUpdateStatus
  \/ Return

SpecKeys == InitEmpty /\ [][NextKeys]_vars

\* ---- two update_invoice_status calls in flight on one store

\* the two callers
Callers == {1, 2}

\* the stored invoice the calls are about
SeedInvoice ==
  create_expense_invoice(<<>>, <<>>, SeedExpenses,
                         [now |-> [date |-> Today, us |-> 148], issue |-> Today,
                          due |-> Today], E1, U1).val

\* the store holds the invoice N148
InitConcurrent ==
  /\ timesheets = <<>>
  /\ invoices = <<SeedInvoice>>
  /\ expenses = SeedExpenses
  /\ projects = SeedProjects
  /\ talents = SeedTalents
  /\ talentInvoice = SeedRates
  /\ billingInformation = <<>>
  /\ pc = "idle"
  /\ req = None
  /\ resp = None
  /\ trace = None
  /\ before = None
  /\ client = Connected
  /\ database = [client |-> Connected]

\* two workers receive an update_invoice_status request each, for one
\* invoice_number; each call is at its first statement
ConcurrentStart ==
  /\ pc = "idle"
  /\ \E number \in {N148, N149}, s1, s2 \in InvoiceStatuses \cup {Str("approved")} :
       req' = [op |-> "update_invoice_status", invoice_number |-> number,
               status |-> <<s1, s2>>]
  /\ pc' = "running"
  /\ resp' = <<None, None>>
  /\ trace' = [at |-> <<"update", "update">>, writes |-> <<>>]
  /\ before' = Db
  /\ UNCHANGED <<timesheets, invoices>>
  /\ UNCHANGED fixed

\* the position of the two calls once caller c has moved to position at
Moved(c, at) == [trace.at EXCEPT ![c] = at]

\* the calls are in flight until both have returned
Flight(at) == IF \A c \in Callers : at[c] = "returned" THEN "done" ELSE "running"

\* update_invoice_status of caller c up to the test of modified_count: the
\* test of the status and the store's update_one, which the store applies
\* as one step
CallerUpdate(c) ==
  /\ pc = "running"
  /\ trace.at[c] = "update"
  /\ \E status \in {req.status[c]} :
     \E result \in {update_one(invoices, [invoice_number |-> req.invoice_number],
                               [status |-> status])} :
       IF status \notin InvoiceStatuses
         THEN /\ resp' = [resp EXCEPT ![c] =
                            [ok |-> FALSE, val |-> Raise("Invalid status", status)]]
              /\ trace' = [trace EXCEPT !.at = Moved(c, "returned")]
              /\ pc' = Flight(Moved(c, "returned"))
              /\ UNCHANGED invoices
       ELSE IF result.modified_count = 0
         THEN /\ resp' = [resp EXCEPT ![c] =
                            [ok |-> FALSE,
                             val |-> Raise("Invoice not found", req.invoice_number)]]
              /\ trace' = [trace EXCEPT !.at = Moved(c, "returned")]
              /\ pc' = Flight(Moved(c, "returned"))
              /\ invoices' = result.coll
       ELSE /\ invoices' = result.coll
            /\ trace' = [at |-> Moved(c, "find"), writes |-> Append(trace.writes, c)]
            /\ UNCHANGED <<pc, resp>>
  /\ UNCHANGED <<timesheets, req, before>>
  /\ UNCHANGED fixed

\* update_invoice_status of caller c from get_invoice to the return
CallerFind(c) ==
  /\ pc = "running"
  /\ trace.at[c] = "find"
  /\ resp' = [resp EXCEPT ![c] =
                [ok |-> TRUE, val |-> get_invoice(invoices, req.invoice_number)]]
  /\ trace' = [trace EXCEPT !.at = Moved(c, "returned")]
  /\ pc' = Flight(Moved(c, "returned"))
  /\ UNCHANGED <<timesheets, invoices, req, before>>
  /\ UNCHANGED fixed

NextConcurrent ==
  \/ ConcurrentStart
  \/ \E c \in Callers : CallerUpdate(c)
  \/ \E c \in Callers : CallerFind(c)
  \/ Return

SpecConcurrent == InitConcurrent /\ [][NextConcurrent]_vars

\* ---- listing the stored timesheets by date bounds

\* the start_date and end_date arguments of list_timesheets: none, and days
\* before, inside and at the end of the stored ranges
ListBounds ==
  {None, FirstDay, Date(2024, 2, 29), strftime(strptime(FirstDay) + MaxSpan)}

\* TimesheetHandler.list_timesheets(start_date=..., end_date=...)
ListTimesheets ==
  /\ pc = "idle"
  /\ \E start_date, end_date \in ListBounds :
    Returns([op |-> "list_timesheets", start_date |-> start_date,
             end_date |-> end_date],
            Outcome(TRUE,
                    list_timesheets(timesheets, None, None, None, start_date, end_date),
                    timesheets, invoices, <<"timesheets.find">>))

NextList == CreateTimesheet \/ ListTimesheets \/ Return

SpecList == InitEmpty /\ [][NextList]_vars

\* ---- the connection module: connecting, taking the database, closing

\* what a ping does: it goes through, or raises ConnectionFailure,
\* ServerSelectionTimeoutError, an error whose text holds
\* CERTIFICATE_VERIFY_FAILED, or an error of another class
PingOutcomes ==
  {"ok", "ConnectionFailure", "ServerSelectionTimeoutError",
   "CERTIFICATE_VERIFY_FAILED", "OperationFailure"}

\* what a call of the module meets
Envs ==
  [is_atlas : BOOLEAN, construct : {"ok", "ConfigurationError"},
   ping : PingOutcomes \X PingOutcomes]

\* the module as imported: no client, no database
InitConnection ==
  /\ timesheets = <<>>
  /\ invoices = <<>>
  /\ expenses = SeedExpenses
  /\ projects = SeedProjects
  /\ talents = SeedTalents
  /\ talentInvoice = SeedRates
  /\ billingInformation = <<>>
  /\ pc = "idle"
  /\ req = None
  /\ resp = None
  /\ trace = None
  /\ before = None
  /\ client = None
  /\ database = None

\* a call of the module returns
ConnectionReturns(request, outcome, ok, val) ==
  /\ client' = outcome.client
  /\ database' = outcome.database
  /\ pc' = "done"
  /\ req' = request
  /\ resp' = [ok |-> ok, val |-> val]
  /\ trace' = None
  /\ before' = [client |-> client, database |-> database]
  /\ UNCHANGED <<timesheets, invoices, expenses, projects, talents,
                 talentInvoice, billingInformation>>

\* connection.get_mongodb_client()
GetMongodbClient ==
  /\ pc = "idle"
  /\ \E env \in Envs :
     \E got \in {get_mongodb_client(client, env)} :
       ConnectionReturns([op |-> "get_mongodb_client", env |-> env],
                         [client |-> got.client, database |-> database],
                         got.ok, got.val)

\* connection.get_database()
GetDatabase ==
  /\ pc = "idle"
  /\ \E env \in Envs :
     \E got \in {get_database(client, database, env)} :
       ConnectionReturns([op |-> "get_database", env |-> env], got, got.ok, got.val)

\* connection.close_connection()
CloseConnection ==
  /\ pc = "idle"
  /\ ConnectionReturns([op |-> "close_connection"],
                       close_connection(client, database), TRUE, None)

\* the caller takes the result of a call of the module
ConnectionReturn ==
  /\ pc = "done"
  /\ pc' = "idle"
  /\ req' = None
  /\ resp' = None
  /\ before' = None
  /\ UNCHANGED <<timesheets, invoices, trace>>
  /\ UNCHANGED fixed

NextConnection == GetMongodbClient \/ GetDatabase \/ CloseConnection \/ ConnectionReturn

SpecConnection == InitConnection /\ [][NextConnection]_vars

\* ------------------------------------------------------------------------
\* Properties

RECURSIVE SumHours(_)
\* the hours of the entries added up in entry order, starting from 0.0
SumHours(entries) ==
  IF Len(entries) = 0 THEN FZero
  ELSE FAdd(SumHours(SubSeq(entries, 1, Len(entries) - 1)),
            entries[Len(entries)].hours)

\* a call of the given handler operation has returned
Returned(op) == pc = "done" /\ "op" \in DOMAIN req /\ req.op = op

\* C1: in every reachable state every stored timesheet has total_hours equal
\* to the sum of the hours of its entries
C1_TotalHoursIsSumOfEntries ==
  \A i \in 1..Len(timesheets) :
    timesheets[i].total_hours = SumHours(timesheets[i].entries)

\* C1 witness: a timesheet regenerated over the longest range at 7.6 hours a
\* day, its status changed before, holds six entries and their sum
C1_Witness ==
  /\ Returned("update_timesheet_dates") /\ resp.ok
  /\ \E i \in 1..Len(timesheets) :
       /\ timesheets[i].status = Str("approved")
       /\ Len(timesheets[i].entries) = MaxSpan + 1
       /\ timesheets[i].entries[1].hours = ParseFloat(76, 1)
       /\ timesheets[i].total_hours = SumHours(timesheets[i].entries)

\* the timesheet a successful create_timesheet or update_timesheet_dates
\* call stored: the document it returned
StoredByCall == resp.val

\* a create_timesheet or update_timesheet_dates call over a range with
\* start_date <= end_date has succeeded
RangeStored ==
  /\ Returned("create_timesheet") \/ Returned("update_timesheet_dates")
  /\ resp.ok
  /\ strptime(req.start_date) <= strptime(req.end_date)

\* the entries of the stored timesheet are one per calendar day of the
\* requested range, ascending, each with the requested hours and no description
EntriesCoverRange ==
  LET t == StoredByCall
      n == strptime(req.end_date) - strptime(req.start_date) + 1
  IN /\ \E i \in 1..Len(timesheets) : timesheets[i] = t
     /\ t.start_date = req.start_date /\ t.end_date = req.end_date
     /\ Len(t.entries) = n
     /\ \A i \in 1..n :
          /\ ValidDate(t.entries[i].date)
          /\ strptime(t.entries[i].date) = strptime(req.start_date) + (i - 1)
          /\ t.entries[i].hours = req.hours_per_day
          /\ t.entries[i].description = None

\* C2: for start_date <= end_date and uniform hours h, create_timesheet and
\* update_timesheet_dates store one entry per calendar day of the range, in
\* ascending order, each with hours h and no description, and
\* total_hours = h * length
C2_EntriesAndProduct ==
  RangeStored =>
    /\ EntriesCoverRange
    /\ StoredByCall.total_hours =
         FMul(req.hours_per_day, FromNat(Len(StoredByCall.entries)))

\* the part of C2 about entries alone
C2_EntriesOnly == RangeStored => EntriesCoverRange

\* C3: create_timesheet_invoice gives its single line item the amount H*R
\* for Hourly, (H/8)*R for Daily, (H/40)*R for Weekly, (H/160)*R for
\* Monthly and 0 for any other rate type, and in that last case still
\* inserts the invoice and reports no error
C3_InvoiceAmount ==
  LET timesheet == find_one(timesheets, [timesheet_id |-> req.timesheet_id])
      setting == find_one(talentInvoice, [project_id |-> timesheet.project_id,
                                          talent_id |-> timesheet.user_id])
      t == setting.talentInvoiceRateType
      H == timesheet.total_hours
      R == setting.talentInvoiceRateValue
      amount == resp.val.items[1].amount
  IN (/\ Returned("create_timesheet_invoice")
      /\ timesheet # None
      /\ setting # None
      /\ "talentInvoiceRateType" \in DOMAIN setting)
     => /\ resp.ok
        /\ Len(invoices) > 0 /\ invoices[Len(invoices)] = resp.val
        /\ Len(resp.val.items) = 1
        /\ t = Str("Hourly") => amount = FMul(H, R)
        /\ t = Str("Daily") => amount = FMul(FDiv(H, FromNat(8)), R)
        /\ t = Str("Weekly") => amount = FMul(FDiv(H, FromNat(40)), R)
        /\ t = Str("Monthly") => amount = FMul(FDiv(H, FromNat(160)), R)
        /\ t \notin {Str("Hourly"), Str("Daily"), Str("Weekly"), Str("Monthly")}
             => amount = FZero

\* C3 witness: 40 hours at a Daily rate of 100 invoiced as 500
C3_Witness ==
  /\ Returned("create_timesheet_invoice") /\ resp.ok
  /\ Get(talentInvoice[1], "talentInvoiceRateType") = Str("Daily")
  /\ Get(talentInvoice[1], "talentInvoiceRateValue") = FromNat(100)
  /\ resp.val.items[1].quantity = FromNat(40)
  /\ resp.val.items[1].amount = FromNat(500)
  /\ invoices[Len(invoices)] = resp.val

\* C3 witness for a rate type outside the chain: amount 0, invoice inserted
C3_WitnessOtherType ==
  /\ Returned("create_timesheet_invoice") /\ resp.ok
  /\ Get(talentInvoice[1], "talentInvoiceRateType") = Str("Quarterly")
  /\ resp.val.items[1].quantity = FromNat(48)
  /\ resp.val.items[1].amount = FZero
  /\ invoices[Len(invoices)] = resp.val

\* ---- requests through process_query

\* the envelope the parser returned for the request
Envelope == parse(req.llm)

\* the request got past the parser and the extractor: its intent and entity
\* type were classified
Classified == Returned("process_query") /\ trace.classified

\* the entity mapping, intent and entity type of a classified request
ReqEntities == extract_all_entities(Envelope.entities, req.rx)
ReqIntent == classify(Envelope)
ReqEntityType == get_entity_type(Envelope)

\* the response to a failure caught at the top of process_query
ProcessingError(text, arg) == Failure("Processing error", Raise(text, arg))


\* every collection is as the call found it
StoreUnchanged == Db = before

\* C4: an UPDATE TIMESHEET request whose entities hold timesheet_id, status,
\* start_date and end_date applies only the status transition: start_date,
\* end_date, entries and total_hours of the timesheet are the same after the
\* request as before, whether the status update succeeds or fails
C4Case(e) ==
  /\ ReqIntent = "UPDATE" /\ ReqEntityType = "TIMESHEET"
  /\ {"timesheet_id", "status", "start_date", "end_date"} \subseteq DOMAIN e

C4_OnlyStatusApplied ==
  Classified =>
    \A e \in {ReqEntities} :
      C4Case(e) =>
        /\ Len(timesheets) = Len(before.timesheets)
        /\ \A i \in 1..Len(timesheets) :
             LET old == before.timesheets[i]
                 new == timesheets[i]
             IN /\ new.start_date = old.start_date
                /\ new.end_date = old.end_date
                /\ new.entries = old.entries
                /\ new.total_hours = old.total_hours
                /\ new # old =>
                     /\ old.timesheet_id = e.timesheet_id
                     /\ new = [old EXCEPT !.status = e.status]
        /\ [Db EXCEPT !.timesheets = before.timesheets] = before
        /\ resp.success =>
             get_timesheet(timesheets, e.timesheet_id).status = e.status

\* C4 witness: the status of a stored timesheet was set by a request that
\* also carried a date range other than the timesheet's own
C4_Witness ==
  /\ Classified
  /\ \E e \in {ReqEntities} :
       /\ C4Case(e) /\ resp.success
       /\ LET t == get_timesheet(timesheets, e.timesheet_id)
          IN /\ t.status = Str("approved") /\ e.status = Str("approved")
             /\ get_timesheet(before.timesheets, e.timesheet_id).status # Str("approved")
             /\ t.end_date # e.end_date
             /\ Len(t.entries) = MaxSpan + 1

\* a CREATE INVOICE request whose entities hold expense_id and neither
\* talent_id nor user_id
C5Case(e) ==
  /\ ReqIntent = "CREATE" /\ ReqEntityType = "INVOICE"
  /\ "expense_id" \in DOMAIN e
  /\ "talent_id" \notin DOMAIN e
  /\ "user_id" \notin DOMAIN e

\* the validation failure of the expense branch, with nothing read or written
C5Outcome ==
  /\ resp = ProcessingError("talent_id required for expense invoice", None)
  /\ trace.ops = <<>>
  /\ StoreUnchanged

\* C5 as stated: a CREATE INVOICE request whose entities contain expense_id
\* but neither talent_id nor user_id fails with 'talent_id required for
\* expense invoice' and writes no collection
C5_AsStated ==
  Classified => \A e \in {ReqEntities} : C5Case(e) => C5Outcome

\* C5 amended: the same for a request whose entities contain no timesheet_id
\* either
C5_ExpenseNeedsTalent ==
  Classified =>
    \A e \in {ReqEntities} :
      (C5Case(e) /\ "timesheet_id" \notin DOMAIN e) => C5Outcome

\* C5 witness: such a request for a stored expense was refused
C5_Witness ==
  /\ Classified
  /\ \E e \in {ReqEntities} :
       /\ C5Case(e) /\ "timesheet_id" \notin DOMAIN e
       /\ e.expense_id = E1
       /\ get_expense(expenses, E1) # None
  /\ C5Outcome

\* C6: process_query returns a mapping with a boolean success for every
\* outcome of its parts; when the parser's envelope carries an error it
\* returns success=false with error 'Query parsing failed' and performs no
\* classification, dispatch or store access; every other failure is returned
\* as success=false with error 'Processing error'
C6_ParseErrorStopsRequest ==
  Returned("process_query") =>
    /\ resp.success \in BOOLEAN
    /\ "error" \in DOMAIN Envelope =>
         /\ resp = Failure("Query parsing failed", Envelope.error)
         /\ trace = Trace(FALSE, <<>>, <<>>)
         /\ StoreUnchanged
    /\ ("error" \notin DOMAIN Envelope /\ ~resp.success) =>
         resp.error = "Processing error"

\* the (intent, entity type) pairs _execute_operation has no branch for
Unsupported(intent, entity_type) ==
  \/ intent = "DELETE"
  \/ intent = "CREATE" /\ entity_type \notin {"TIMESHEET", "INVOICE"}
  \/ intent = "UPDATE" /\ entity_type \notin {"TIMESHEET", "INVOICE"}

\* the messages of the errors _execute_operation raises itself
UnsupportedMessages ==
  {"Create operation not supported for", "Update operation not supported for",
   "Unsupported intent"}

\* C7: DELETE with any entity type, and CREATE or UPDATE with an entity type
\* other than TIMESHEET or INVOICE, fail with success=false and invoke no
\* handler operation, so that no collection is read or written; every other
\* (intent, entity type) pair takes exactly one dispatch branch
C7_UnsupportedPairsFail ==
  Classified =>
    IF Unsupported(ReqIntent, ReqEntityType)
      THEN /\ ~resp.success
           /\ resp.error = "Processing error"
           /\ resp.message.text \in UnsupportedMessages
           /\ trace.dispatched = <<>>
           /\ trace.ops = <<>>
           /\ StoreUnchanged
      ELSE /\ Len(trace.dispatched) = 1
           /\ resp.success \/ resp.message.text \notin UnsupportedMessages

\* C7 witness: a DELETE INVOICE request naming a stored invoice has failed
C7_Witness ==
  /\ Classified
  /\ ReqIntent = "DELETE" /\ ReqEntityType = "INVOICE"
  /\ \E e \in {ReqEntities} : get_invoice(invoices, Get(e, "invoice_number")) # None
  /\ resp = ProcessingError("Unsupported intent", Str("DELETE"))
  /\ trace.dispatched = <<>>

\* a request the generic query path serves: intent QUERY, or intent READ
\* with no entity type
GenericCase ==
  /\ Classified
  /\ ReqIntent = "QUERY" \/ (ReqIntent = "READ" /\ ReqEntityType = "None")

\* the response and store operations of a request served by the given
\* outcome of a read path
ServedBy(outcome) ==
  \E o \in {outcome} :
    /\ trace.ops = o.ops
    /\ IF o.ok THEN resp.success /\ resp.result = _format_result(o.val)
               ELSE resp = Failure("Processing error", o.val)

\* the listing of timesheets filtered by every filter the mapping holds
ListByPresentFilters(entities) ==
  Result(Read(before, list_timesheets(before.timesheets,
                                      Get(entities, "project_id"),
                                      Or(Get(entities, "talent_id"), Get(entities, "user_id")),
                                      Get(entities, "status"),
                                      Get(entities, "start_date"),
                                      Get(entities, "end_date")),
              "timesheets.find"),
         "list_timesheets", None, Str("TIMESHEET"))

\* the generic query keys, in the order _generic_query tests them
GenericKeys == {"timesheet_id", "invoice_number", "expense_id", "project_id"}

\* C8: for intent QUERY and for READ with no entity type, dispatch selects
\* the READ path of the first key present in the entity mapping in the order
\* timesheet_id, invoice_number, expense_id, project_id; a later key is used
\* only when every earlier key is absent
C8_FirstKeyPresent ==
  GenericCase =>
    \A e \in {ReqEntities} :
      (GenericKeys \cap DOMAIN e # {}) =>
        IF "timesheet_id" \in DOMAIN e THEN ServedBy(_read_timesheet(before, e))
        ELSE IF "invoice_number" \in DOMAIN e THEN ServedBy(_read_invoice(before, e))
        ELSE IF "expense_id" \in DOMAIN e THEN ServedBy(_read_expense(before, e))
        ELSE ServedBy(_read_project(before, e))

\* C9: when the generic query path finds none of timesheet_id,
\* invoice_number, expense_id and project_id in the entity mapping, it lists
\* timesheets filtered by every filter present in the mapping: talent_id or
\* user_id, status, start_date and end_date
C9_DefaultListFilters ==
  GenericCase =>
    \A e \in {ReqEntities} :
      (GenericKeys \cap DOMAIN e = {}) => ServedBy(ListByPresentFilters(e))

\* the READ path a request with intent READ takes: that of its entity type,
\* or for no entity type the one _generic_query selects
ReadPath(e) ==
  IF ReqEntityType # "None" THEN ReqEntityType
  ELSE IF Truthy(Get(e, "timesheet_id")) THEN "TIMESHEET"
  ELSE IF Truthy(Get(e, "invoice_number")) THEN "INVOICE"
  ELSE IF Truthy(Get(e, "expense_id")) THEN "EXPENSE"
  ELSE IF Truthy(Get(e, "project_id")) THEN "PROJECT"
  ELSE "None"

\* the exact-get READ requests: the collection searched, its key field, the
\* key the request gives and the entity named in the message
ExactGet(e) ==
  LET path == ReadPath(e)
      talent == Or(Get(e, "talent_id"), Get(e, "user_id"))
  IN IF path = "TIMESHEET" /\ Truthy(Get(e, "timesheet_id"))
       THEN [coll |-> before.timesheets, field |-> "timesheet_id",
             key |-> e.timesheet_id, text |-> "Timesheet not found"]
     ELSE IF path = "INVOICE" /\ Truthy(Get(e, "invoice_number"))
       THEN [coll |-> before.invoices, field |-> "invoice_number",
             key |-> e.invoice_number, text |-> "Invoice not found"]
     ELSE IF path = "EXPENSE" /\ Truthy(Get(e, "expense_id"))
       THEN [coll |-> before.expenses, field |-> "expense_id",
             key |-> e.expense_id, text |-> "Expense not found"]
     ELSE IF path = "PROJECT" /\ Truthy(Get(e, "project_id"))
       THEN [coll |-> before.projects, field |-> "project_id",
             key |-> e.project_id, text |-> "Project not found"]
     ELSE IF path = "TALENT" /\ Truthy(talent)
       THEN [coll |-> before.talents, field |-> "user_id",
             key |-> talent, text |-> "Talent not found"]
     ELSE None

\* C10: an exact-get READ returns the stored document when one with that key
\* exists and otherwise fails with success=false and the message
\* '<Entity> <key> not found'; in both cases every collection is unchanged
C10_ExactGet ==
  (Classified /\ ReqIntent = "READ") =>
    \A g \in {ExactGet(e) : e \in {ReqEntities}} :
      g # None =>
        /\ LET found == {i \in 1..Len(g.coll) : Get(g.coll[i], g.field) = g.key}
           IN IF found # {}
                THEN /\ resp.success
                     /\ \E i \in found : resp.result.data = g.coll[i]
                ELSE resp = ProcessingError(g.text, g.key)
        /\ StoreUnchanged

\* C10 witness: a READ TALENT request by user_id found no such talent
C10_Witness ==
  /\ Classified /\ ReqIntent = "READ" /\ ReqEntityType = "TALENT"
  /\ \E e \in {ReqEntities} : ExactGet(e) # None /\ "talent_id" \notin DOMAIN e
  /\ resp = ProcessingError("Talent not found", U2)
  /\ StoreUnchanged

\* C10 witness of the other kind: a READ TIMESHEET request returned the
\* stored timesheet
C10_WitnessFound ==
  /\ Classified /\ ReqIntent = "READ" /\ ReqEntityType = "TIMESHEET"
  /\ \E e \in {ReqEntities} : ExactGet(e) # None
  /\ resp.success
  /\ resp.result.data = timesheets[1]
  /\ resp.result.data.timesheet_id = T148
  /\ StoreUnchanged

\* ---- the invoice ledger

\* the invoice carries a link under the key
Linked(invoice, key) == Truthy(Get(invoice, key))

\* C11: every stored invoice is linked to a timesheet or to an expense,
\* never to both and never to neither
C11_OneProvenanceLink ==
  \A i \in 1..Len(invoices) :
    Linked(invoices[i], "timesheet_id") # Linked(invoices[i], "expense_id")

\* the ledger holds an invoice of a timesheet and an invoice of an expense
C11_Witness ==
  /\ \E i \in 1..Len(invoices) : Linked(invoices[i], "timesheet_id")
  /\ \E i \in 1..Len(invoices) : Linked(invoices[i], "expense_id")

\* the timesheet or the expense the invoice was created from
SourceOf(invoice) ==
  IF Linked(invoice, "timesheet_id")
    THEN get_timesheet(timesheets, invoice.timesheet_id)
    ELSE get_expense(expenses, invoice.expense_id)

\* C12: every stored invoice carries the project_id and, as talent_id, the
\* user_id of the timesheet or the expense it was created from
C12_SourceProjectAndTalent ==
  \A i \in 1..Len(invoices) :
    \A source \in {SourceOf(invoices[i])} :
      /\ source # None
      /\ invoices[i].project_id = Get(source, "project_id")
      /\ invoices[i].talent_id = Get(source, "user_id")

\* what does hold: the project_id of every invoice and the talent_id of every
\* invoice of a timesheet are the source's
C12_ProjectAndTimesheetTalent ==
  \A i \in 1..Len(invoices) :
    \A source \in {SourceOf(invoices[i])} :
      /\ source # None
      /\ invoices[i].project_id = Get(source, "project_id")
      /\ Linked(invoices[i], "timesheet_id")
           => invoices[i].talent_id = Get(source, "user_id")

\* the fields of an invoice other than its status
Fixed(invoice) == [k \in DOMAIN invoice \ {"status"} |-> invoice[k]]

\* the position of the first invoice with the number, 0 when there is none
FirstNumbered(inv, number) ==
  IF \E i \in 1..Len(inv) : inv[i].invoice_number = number
    THEN CHOOSE i \in 1..Len(inv) :
           /\ inv[i].invoice_number = number
           /\ \A j \in 1..(i - 1) : inv[j].invoice_number # number
    ELSE 0

\* C13: a call leaves every invoice it found in its place with its items,
\* currency, dates, project, talent, link and number; update_invoice_status
\* sets the status of the first invoice with the number and changes no other
\* invoice; every other call changes no stored invoice at all
C13_InvoiceFrame ==
  pc = "done" =>
    /\ Len(invoices) >= Len(before.invoices)
    /\ \A i \in 1..Len(before.invoices) :
         /\ Fixed(invoices[i]) = Fixed(before.invoices[i])
         /\ invoices[i] # before.invoices[i] =>
              /\ req.op = "update_invoice_status"
              /\ i = FirstNumbered(before.invoices, req.invoice_number)
              /\ invoices[i].status = req.status
    /\ req.op = "update_invoice_status" => Len(invoices) = Len(before.invoices)

\* update_invoice_status has set the status of the second of two invoices
C13_Witness ==
  /\ Returned("update_invoice_status")
  /\ resp.ok
  /\ Len(invoices) = 2
  /\ invoices[2] # before.invoices[2]
  /\ invoices[1] = before.invoices[1]

\* update_invoice_status has set the status of the first of two invoices
\* with one number, the second keeping its own
C13_WitnessSameNumber ==
  /\ Returned("update_invoice_status")
  /\ Len(invoices) = 2
  /\ invoices[1].invoice_number = invoices[2].invoice_number
  /\ invoices[1] # before.invoices[1]
  /\ invoices[2].status # req.status

\* C14: the due_date of every stored invoice is 30 days after its issue_date
C14_DueThirtyDaysAfterIssue ==
  \A i \in 1..Len(invoices) :
    strptime(invoices[i].due_date) = strptime(invoices[i].issue_date) + 30

\* ---- the classifier

\* the request got past the parser and the extractor: the classifier was
\* called on its envelope
Parsed ==
  /\ Returned("process_query")
  /\ ~Truthy(Get(Envelope, "error"))
  /\ Envelope.entities # None

\* the member of the enumeration that the str value upper-cases to, or the
\* fallback for every other value
MemberOr(v, members, fallback) ==
  IF DOMAIN v = {"s"} /\ Upper(v.s) \in members THEN Upper(v.s) ELSE fallback

\* C15: classify returns a member of Intent for every envelope: the member
\* the intent field upper-cases to, QUERY for every other value
C15_ClassifyTotal ==
  Parsed => ReqIntent = MemberOr(Envelope.intent, Intent, "QUERY")

\* what does hold: classify on every intent field that is a str
C15_ClassifyStr ==
  Parsed /\ DOMAIN Envelope.intent = {"s"} =>
    ReqIntent = MemberOr(Envelope.intent, Intent, "QUERY")

\* C16: get_entity_type returns the member of EntityType the entity_type
\* field upper-cases to, and no entity type for every other value
C16_EntityTypeTotal ==
  Parsed => ReqEntityType = MemberOr(Envelope.entity_type, EntityType, "None")

\* what does hold: get_entity_type on every entity_type field that is a str
\* or a falsy value
C16_EntityTypeStr ==
  Parsed /\ (DOMAIN Envelope.entity_type = {"s"} \/ ~Truthy(Envelope.entity_type)) =>
    ReqEntityType = MemberOr(Envelope.entity_type, EntityType, "None")

\* ---- the extractor

\* C17: in the mapping extract_all_entities returns, timesheet_id,
\* invoice_number, expense_id, status and currency hold the language model's
\* value when it gave one and the regex value otherwise; start_date, end_date,
\* hours and amount hold the regex value whenever the text yields one and the
\* language model's otherwise
C17_MergeRule ==
  Returned("extract_all_entities") =>
    /\ \A k \in {"timesheet_id", "invoice_number", "expense_id", "status", "currency"} :
         Get(resp, k) = IF Truthy(Get(req.entities, k)) THEN req.entities[k]
                        ELSE req.rx[k]
    /\ \A k \in {"start_date", "end_date"} :
         Get(resp, k) = IF k \in DOMAIN req.rx.dates THEN req.rx.dates[k]
                        ELSE Get(req.entities, k)
    /\ \A k \in {"hours", "amount"} :
         Get(resp, k) = IF k \in DOMAIN req.rx.numbers THEN req.rx.numbers[k]
                        ELSE Get(req.entities, k)

\* the language model and the regexes both gave a timesheet_id and a
\* start_date, and gave different ones
C17_Witness ==
  /\ Returned("extract_all_entities")
  /\ Truthy(Get(req.entities, "timesheet_id"))
  /\ req.rx.timesheet_id \notin {None, req.entities.timesheet_id}
  /\ Truthy(Get(req.entities, "start_date"))
  /\ "start_date" \in DOMAIN req.rx.dates
  /\ req.rx.dates.start_date # req.entities.start_date

\* C18: the mapping extract_all_entities returns has no key with an empty
\* value, None or the empty string
C18_NoEmptyValue ==
  Returned("extract_all_entities") =>
    \A k \in DOMAIN resp : resp[k] \notin {None, Empty}

\* what does hold: no key of the mapping holds None
C18_NoNone ==
  Returned("extract_all_entities") => \A k \in DOMAIN resp : resp[k] # None

\* the text has the form "... from <Month1> <d1> to <Month2> <d2>"
C19Case ==
  /\ Returned("extract_dates")
  /\ req.parts.head.form = "from"
  /\ req.parts.join = <<" ", "t", "o", " ">>
  /\ req.parts.phrases[1].kind = "month"
  /\ req.parts.phrases[2].kind = "month"
  /\ req.parts.phrases[3].kind = "none"

\* C19: for a text "... from <Month1> <d1> to <Month2> <d2>" extract_dates
\* returns start_date = Month1 d1 and end_date = Month2 d2 of the current year
C19_FromToMonthNames ==
  C19Case => resp = [start_date |-> req.parts.phrases[1].date,
                     end_date |-> req.parts.phrases[2].date]

\* what does hold: both dates go to start_date, which ends as the date whose
\* month pattern is later in month_patterns, and no end_date is returned
C19_FromTakesBoth ==
  C19Case =>
    /\ DOMAIN resp = {"start_date"}
    /\ resp.start_date \in {req.parts.phrases[1].date, req.parts.phrases[2].date}
    /\ resp.start_date.m >= req.parts.phrases[1].date.m
    /\ resp.start_date.m >= req.parts.phrases[2].date.m

\* the token is a YYYY-MM-DD token
IsIso(phrase) == phrase.kind = "iso"

\* C20: with two or more YYYY-MM-DD tokens in the text extract_dates returns
\* the first as start_date and the second as end_date, whatever month names
\* and keywords the text holds; with one, it returns it as start_date
C20_ExplicitDatesWin ==
  Returned("extract_dates") =>
    \A iso \in {SelectSeq(req.parts.phrases, IsIso)} :
      /\ Len(iso) >= 2 => /\ resp.start_date = iso[1].date
                          /\ resp.end_date = iso[2].date
      /\ Len(iso) = 1 => resp.start_date = iso[1].date

\* a text with "from", two YYYY-MM-DD tokens and a month-name token after them
C20_Witness ==
  /\ Returned("extract_dates")
  /\ req.parts.head.form = "from"
  /\ IsIso(req.parts.phrases[1])
  /\ IsIso(req.parts.phrases[2])
  /\ req.parts.phrases[3].kind = "month"

\* a text with a month-name token before its only YYYY-MM-DD token
C20_WitnessOne ==
  /\ Returned("extract_dates")
  /\ req.parts.phrases[1].kind = "month"
  /\ IsIso(req.parts.phrases[2])
  /\ req.parts.phrases[3].kind = "none"

\* the substring of the first token the pattern of the kind matches in
FirstOfKind(phrases, kind) ==
  IF phrases[1].kind = kind THEN [chars |-> phrases[1].match]
  ELSE IF phrases[2].kind = kind THEN [chars |-> phrases[2].match]
  ELSE None

\* C21: extract_timesheet_id, extract_invoice_number and extract_uuid return
\* the first substring their pattern matches, in the letter case of the text,
\* and None when the text holds no match
C21_FirstMatchVerbatim ==
  Returned("extract_id") => resp = FirstOfKind(req.parts.phrases, req.kind)

\* a match in lower or mixed case was returned from a text holding a second
\* match of the pattern
C21_Witness ==
  /\ Returned("extract_id")
  /\ req.parts.phrases[1].kind = req.kind
  /\ req.parts.phrases[2].kind = req.kind
  /\ req.parts.phrases[1].match # req.parts.phrases[2].match
  /\ Lower(req.parts.phrases[1].match) # req.parts.phrases[1].match
  /\ resp = [chars |-> req.parts.phrases[1].match]

\* no substring of the text matched the pattern
C21_WitnessAbsent ==
  /\ Returned("extract_id")
  /\ req.parts.phrases[1].chars # <<>>
  /\ resp = None

\* ---- regenerating a timesheet

ReadOps ==
  {"timesheets.find_one", "timesheets.find", "invoices.find_one", "invoices.find",
   "expenses.find_one", "expenses.find", "projects.find_one", "talents.find_one",
   "talentInvoice.find_one", "billingInformation.find_one"}

\* C23: a request performs no store operation but reads and inserts and
\* updates on timesheets and invoices, and leaves the expenses, projects,
\* talents, rate-settings and billing-information collections as they were
C23_OnlyTimesheetsAndInvoicesWritten ==
  Returned("process_query") =>
    /\ \A i \in 1..Len(trace.ops) :
         trace.ops[i] \in ReadOps \cup {"timesheets.insert_one", "timesheets.update_one",
                                       "invoices.insert_one", "invoices.update_one"}
    /\ expenses = before.expenses
    /\ projects = before.projects
    /\ talents = before.talents
    /\ talentInvoice = before.talentInvoice
    /\ billingInformation = before.billingInformation

\* a request read the expenses collection and inserted an invoice
C23_Witness ==
  /\ Returned("process_query")
  /\ trace.ops = <<"expenses.find_one", "invoices.insert_one">>
  /\ Len(invoices) = Len(before.invoices) + 1

\* a request read the rate settings and the billing information and
\* inserted an invoice
C23_WitnessRates ==
  /\ Returned("process_query")
  /\ \E i \in 1..Len(trace.ops) : trace.ops[i] = "talentInvoice.find_one"
  /\ \E i \in 1..Len(trace.ops) : trace.ops[i] = "billingInformation.find_one"
  /\ Len(invoices) = Len(before.invoices) + 1

\* ---- statuses

\* the call set a status outside the set of its entity
InvalidStatusCall ==
  \/ Returned("update_timesheet_status") /\ req.status \notin TimesheetStatuses
  \/ Returned("update_invoice_status") /\ req.status \notin InvoiceStatuses

\* C24: a status outside the set of the entity is refused with 'Invalid
\* status' before any store operation, and every stored timesheet and invoice
\* has a status of its own set
C24_StatusesStayValid ==
  /\ \A i \in 1..Len(timesheets) : timesheets[i].status \in TimesheetStatuses
  /\ \A i \in 1..Len(invoices) : invoices[i].status \in InvoiceStatuses
  /\ InvalidStatusCall =>
       /\ ~resp.ok
       /\ resp.val = Raise("Invalid status", req.status)
       /\ trace.ops = <<>>
       /\ StoreUnchanged

\* a status of the other entity's set was refused for a stored invoice or
\* for a stored timesheet
C24_Witness ==
  /\ InvalidStatusCall
  /\ \/ /\ Returned("update_invoice_status")
        /\ req.status \in TimesheetStatuses
        /\ get_invoice(invoices, req.invoice_number) # None
     \/ /\ Returned("update_timesheet_status")
        /\ req.status \in InvoiceStatuses
        /\ get_timesheet(timesheets, req.timesheet_id) # None

C25_WitnessAbsent ==
  /\ Returned("update_invoice_status")
  /\ req.status \in InvoiceStatuses
  /\ invoices # <<>>
  /\ ~resp.ok

\* ---- failed requests

\* the store operations of the request that write
WritesOf(ops) == SelectSeq(ops, LAMBDA op : op \notin ReadOps)

C26_WitnessWritten ==
  /\ Returned("process_query")
  /\ resp.success
  /\ Len(WritesOf(trace.ops)) = 1
  /\ ~StoreUnchanged

\* the positions of the documents that hold the value under the key
Holding(coll, key, value) == {i \in 1..Len(coll) : coll[i][key] = value}

\* a creation has added one document at the end of the collection, under the
\* key made of the month of its clock reading and microsecond % 1000
KeyedInsert(coll, coll_before, key, made) ==
  /\ resp.ok
  /\ coll = Append(coll_before, resp.val)
  /\ resp.val[key] = made
  /\ made.ym = YearMonth(req.clk.date)
  /\ made.n = req.clk.us % 1000

\* a get or an update by key has reached the first document under the key
\* and no other: the get returns it, the update sets its status alone
KeyedReach(coll, coll_before, key, value) ==
  LET held == Holding(coll_before, key, value)
  IN /\ held = {} => (resp.val = None \/ ~resp.ok) /\ coll = coll_before
     /\ held # {} =>
          \E i \in held :
            /\ \A j \in held : i <= j
            /\ \A j \in 1..Len(coll_before) : j # i => coll[j] = coll_before[j]
            /\ resp.ok
            /\ resp.val = coll[i]

\* C27: the natural keys are not unique.  A creation always inserts, under the
\* key TS-/INV-<year and month of the reading>-<microsecond % 1000>, also
\* when a stored record made at another reading of the month with the same
\* microsecond % 1000 has that key; a get or an update by key reaches only
\* the first record under the key
C27_KeysCollide ==
  /\ Returned("create_timesheet") =>
       KeyedInsert(timesheets, before.timesheets, "timesheet_id", TimesheetId(req.clk))
  /\ Returned("create_expense_invoice") =>
       KeyedInsert(invoices, before.invoices, "invoice_number", InvoiceNumber(req.clk))
  /\ Returned("create_timesheet_invoice") =>
       \/ KeyedInsert(invoices, before.invoices, "invoice_number", InvoiceNumber(req.clk))
       \/ ~resp.ok /\ get_timesheet(before.timesheets, T148) = None
  /\ (Returned("get_timesheet") \/ Returned("update_timesheet_status")) =>
       KeyedReach(timesheets, before.timesheets, "timesheet_id", req.timesheet_id)
  /\ (Returned("get_invoice") \/ Returned("update_invoice_status")) =>
       KeyedReach(invoices, before.invoices, "invoice_number", req.invoice_number)

\* a second timesheet was inserted under the key of a stored one, at a
\* reading with another microsecond field
C27_Witness ==
  /\ Returned("create_timesheet")
  /\ resp.ok
  /\ req.clk.us = 1148
  /\ Len(timesheets) = 2
  /\ timesheets[1].timesheet_id = timesheets[2].timesheet_id
  /\ timesheets[1] # timesheets[2]

\* a second invoice was inserted under the number of a stored one
C27_WitnessInvoice ==
  /\ Returned("create_expense_invoice")
  /\ resp.ok
  /\ Len(invoices) = 2
  /\ invoices[1].invoice_number = invoices[2].invoice_number
  /\ "timesheet_id" \in DOMAIN invoices[1]

\* of two different timesheets under one key a get returned the first
C27_WitnessGet ==
  /\ Returned("get_timesheet")
  /\ Len(timesheets) = 2
  /\ timesheets[1].timesheet_id = req.timesheet_id
  /\ timesheets[2].timesheet_id = req.timesheet_id
  /\ timesheets[1] # timesheets[2]
  /\ resp.val = timesheets[1]

\* of two invoices under one number an update changed the first alone
C27_WitnessUpdate ==
  /\ Returned("update_invoice_status")
  /\ Len(invoices) = 2
  /\ invoices[1].invoice_number = req.invoice_number
  /\ invoices[2].invoice_number = req.invoice_number
  /\ invoices[1].status = Str("sent")
  /\ invoices[2].status = Str("draft")

\* two calls for one stored invoice_number with different valid statuses
\* have both returned
C28Case ==
  /\ Returned("update_invoice_status")
  /\ req.status \in Seq(InvoiceStatuses)
  /\ Len(req.status) = 2
  /\ req.status[1] # req.status[2]
  /\ get_invoice(before.invoices, req.invoice_number) # None

\* both callers are told of success and the stored status is that of the
\* write the store applied last
LastWriteWins ==
  /\ \A c \in Callers : resp[c].ok
  /\ Len(trace.writes) = 2
  /\ get_invoice(invoices, req.invoice_number).status = req.status[trace.writes[2]]

\* C28: of two concurrent update_invoice_status calls for one stored invoice
\* with different valid statuses both succeed, the stored status is that of
\* the last write, and each caller is returned the invoice with the status it
\* asked for
C28_EachCallerSeesOwnStatus ==
  C28Case =>
    /\ LastWriteWins
    /\ \A c \in Callers : resp[c].val.status = req.status[c]

\* both callers succeed and the last write wins; the invoice returned to a
\* caller has the status of one of the two requests
C28_LastWriteWins ==
  C28Case =>
    /\ LastWriteWins
    /\ \A c \in Callers : \E d \in Callers : resp[c].val.status = req.status[d]

\* both writes were applied before the first caller read the invoice back:
\* that caller was returned the status the other asked for
C28_Witness ==
  /\ C28Case
  /\ trace.writes = <<1, 2>>
  /\ resp[1].val.status = req.status[2]

\* the timesheets with start_date >= s when s is given and end_date <= e
\* when e is given
WithinBounds(ts, s, e) ==
  SelectSeq(ts, LAMBDA doc : /\ Truthy(s) => DateStrLE(s, doc.start_date)
                             /\ Truthy(e) => DateStrLE(doc.end_date, e))

\* C29: list_timesheets returns the timesheets whose start_date is not before
\* the start_date bound and whose end_date is not after the end_date bound,
\* each bound meaning the same alone and together with the other
C29_BoundsKeepMeaning ==
  Returned("list_timesheets") =>
    resp.val = WithinBounds(before.timesheets, req.start_date, req.end_date)

\* an end_date bound given alone is a bound on the end_date field; given with
\* a start_date bound it is an upper bound on the start_date field
C29_EndBoundsStartDate ==
  Returned("list_timesheets") =>
    resp.val =
      SelectSeq(before.timesheets,
                LAMBDA doc :
                  /\ Truthy(req.start_date) => DateStrLE(req.start_date, doc.start_date)
                  /\ Truthy(req.end_date) =>
                       DateStrLE(IF Truthy(req.start_date) THEN doc.start_date
                                                           ELSE doc.end_date,
                                 req.end_date))

\* with both bounds given a timesheet that ends after the end_date bound was
\* listed
C29_Witness ==
  /\ Returned("list_timesheets")
  /\ Truthy(req.start_date)
  /\ Truthy(req.end_date)
  /\ \E i \in 1..Len(resp.val) : ~DateStrLE(resp.val[i].end_date, req.end_date)

\* the end_date bound given alone left that timesheet out
C29_WitnessAlone ==
  /\ Returned("list_timesheets")
  /\ ~Truthy(req.start_date)
  /\ Truthy(req.end_date)
  /\ resp.val = <<>>
  /\ \E i \in 1..Len(timesheets) : DateStrLE(timesheets[i].start_date, req.end_date)

\* close_connection leaves the module without client and database
CloseResets == Returned("close_connection") => client = None /\ database = None

\* C30: get_mongodb_client returns a client only after a ping of it went
\* through; a call in which the ping raised leaves the module without a
\* client, so that the next call connects again; close_connection resets
\* client and database
C30_ClientOnlyAfterPing ==
  /\ Returned("get_mongodb_client") /\ resp.ok => resp.val.pinged
  /\ Returned("get_mongodb_client") /\ ~resp.ok => client = None
  /\ CloseResets

\* the database is taken from the module's client, a closed module has
\* neither, and get_mongodb_client returns the module's client
C30_CloseResets ==
  /\ database # None => client # None /\ database.client = client
  /\ CloseResets
  /\ Returned("get_mongodb_client") /\ resp.ok => resp.val = client

\* a call returned the client that an earlier call, whose ping raised, left
\* in the module
C30_Witness ==
  /\ Returned("get_mongodb_client")
  /\ resp.ok
  /\ ~resp.val.pinged
  /\ before.client = resp.val

\* after a close get_database connected again
C30_WitnessReconnect ==
  /\ Returned("get_database")
  /\ resp.ok
  /\ before.client = None
  /\ database.client.pinged

====
